---- MODULE Spec2Model ----
(***************************************************************************)
(* Market-data ingestion orchestrator (IvanZdanovich/Bargain,              *)
(* src/data_controller): the publish/subscribe event bus and the           *)
(* controller that connects providers, runs one ingestion task per        *)
(* provider, dispatches events and drives reconnection.                    *)
(*                                                                         *)
(* Specifications:                                                         *)
(*   SpecBus       the event bus API used directly by application code     *)
(*   Spec          the controller: start, stop, ingestion tasks, reconnect *)
(*   SpecBackoff   one call of with_exponential_backoff                    *)
(*   SpecLimiter   one token bucket rate limiter                           *)
(*   SpecShared    one token bucket used by several callers at a time      *)
(*   SpecBreaker   one CircuitBreaker                                      *)
(*   SpecProvider  one Binance provider driven by a single caller          *)
(*   SpecStorage   one storage buffer with its flush tasks                 *)
(*   SpecRegistry  the provider registry of the controller                 *)
(*   SpecReplay    the replay recorder and the two players                 *)
(***************************************************************************)
EXTENDS Integers, Sequences, FiniteSets, TLC

(***************************************************************************)
(* Bounds of the model.                                                    *)
(***************************************************************************)
\* longest subscriber list explored per event type
MaxSubs == 3
\* number of emits explored on a directly used bus
MaxEvents == 1
\* ingestion tasks that exist at one time
MaxTasks == 2
\* operations of the environment that raise (stream, connect, close, send, write)
MaxFaults == 3
\* calls the application makes on the controller (start, stop, subscribe)
MaxCalls == 3
\* reconnect_attempts of the provider configuration
MaxAttempts == 2
\* value at which the event counters of the controller's bus stop counting
CountCap == 0
\* messages the streams of the providers yield
MaxYielded == 2
\* longest subscription list of a provider
MaxProvSubs == 1
\* batch_size of the storage configuration
BatchSize == 1

(***************************************************************************)
(* Event bus: event_bus.py                                                 *)
(***************************************************************************)
\* event types used on the directly driven bus (the set is open in the code)
BusTypes == {"trade", "candle"}

\* application callbacks given to subscribe_event: cbA and cbB return,
\* cbX raises an Exception each time it is called
SyncCallbacks == {"cbA", "cbB", "cbX"}

\* application callbacks given to subscribe_event_async: acA is a coroutine
\* function that completes, acX a coroutine function whose coroutine raises
AsyncCallbacks == {"acA", "acX"}

\* the registrations the application makes: <<type, callback>>
SyncMenu == {<<"trade", "cbA">>, <<"trade", "cbB">>, <<"trade", "cbX">>, <<"candle", "cbA">>}

AsyncMenu == {<<"trade", "acA">>, <<"trade", "acX">>}

\* the callback raises inside the call made by the emitting loop
RaisesAtCall(cb) == cb = "cbX"

\* the coroutine returned by the callback raises when it is run as a task
RaisesInTask(cb) == cb = "acX"

VARIABLES
    bus,          \* the event bus state dictionary
    aemit,        \* the emit_event_async call in flight, if any
    regCount,     \* subscribe calls made so far, per <<type, callback>>: each
                  \* returned an unsubscribe closure the application keeps
    unsubCalled,  \* observation: callbacks whose unsubscribe closure was called
    closuresCalled, \* per <<type, callback>>: how many of the closures that
                  \* were returned have been called at least once
    onCall,       \* what the application's callback cbB does with the bus
                  \* when it is called
    lastOp        \* observation: what the most recent bus operation did

busVars == <<bus, aemit, regCount, unsubCalled, closuresCalled, onCall, lastOp>>

VARIABLES
    cfg,          \* what create_controller was given: storage, handlers, bridge
    running,      \* state["running"]
    tasks,        \* state["tasks"]: the ingestion tasks created, in order
    task,         \* the ingestion tasks: where each one is suspended
    prov,         \* state["providers"]: the provider state dictionaries
    storage,      \* state["storage_buffer"]
    app,          \* the application coroutine that calls start, stop, subscribe
    env           \* what the model has spent: faults injected, calls made, messages yielded

ctlVars == <<cfg, running, tasks, task, prov, storage, app, env>>

\* state of the reliability utilities and of one Binance provider when they
\* are driven on their own (reliability.py, providers/binance.py)
VARIABLES
    retry,      \* one call of with_exponential_backoff
    limiter,    \* one token bucket and the clock it reads
    breaker,    \* one CircuitBreaker and the clock it reads
    provider,   \* one Binance provider state driven by a single caller
    store,      \* one storage buffer with its flush tasks (storage.py)
    replay      \* one recorder and one replay run (replay.py)

relVars == <<retry, limiter, breaker, provider, store, replay>>

vars == <<busVars, ctlVars, relVars>>

\* a utility that the specification at hand does not drive
Unused == [pc |-> "unused"]

RelUnused ==
    /\ retry = Unused
    /\ limiter = Unused
    /\ breaker = Unused
    /\ provider = Unused
    /\ store = Unused
    /\ replay = Unused

Range(s) == {s[i] : i \in 1..Len(s)}

\* a dict with no keys
EmptyDict == [k \in {} |-> <<>>]

\* dict.get(key, []): the list stored under the key, an empty list without it
Get(d, k) == IF k \in DOMAIN d THEN d[k] ELSE <<>>

\* d[key] = value
Put(d, k, v) == [x \in DOMAIN d \cup {k} |-> IF x = k THEN v ELSE d[x]]

\* d.pop(key, None)
Pop(d, k) == [x \in DOMAIN d \ {k} |-> d[x]]

\* create_event_bus
CreateEventBus ==
    [subscribers |-> EmptyDict,
     async_subscribers |-> EmptyDict,
     event_count |-> 0,
     error_count |-> 0]

\* list.remove(x): removes the first element equal to x
RECURSIVE RemoveFirst(_, _)
RemoveFirst(s, x) ==
    IF s = <<>> THEN <<>>
    ELSE IF Head(s) = x THEN Tail(s)
    ELSE <<Head(s)>> \o RemoveFirst(Tail(s), x)

\* subscribe_event: create the list of the type if missing, append the callback
SubscribeEvent(b, ty, cb) ==
    [b EXCEPT !.subscribers = Put(@, ty, Append(Get(@, ty), cb))]

\* subscribe_event_async: the same on the async table
SubscribeEventAsync(b, ty, cb) ==
    [b EXCEPT !.async_subscribers = Put(@, ty, Append(Get(@, ty), cb))]

\* faulty variant of UnsubscribeFn: list.pop() instead of list.remove(callback)
UnsubscribeFnPop(b, ty, cb) ==
    IF cb \in Range(Get(b.subscribers, ty))
    THEN [b EXCEPT !.subscribers[ty] = SubSeq(@, 1, Len(@) - 1)]
    ELSE b

\* the closure returned by subscribe_event
UnsubscribeFn(b, ty, cb) ==
    IF cb \in Range(Get(b.subscribers, ty))
    THEN [b EXCEPT !.subscribers[ty] = RemoveFirst(@, cb)]
    ELSE b

\* the closure returned by subscribe_event_async
UnsubscribeAsyncFn(b, ty, cb) ==
    IF cb \in Range(Get(b.async_subscribers, ty))
    THEN [b EXCEPT !.async_subscribers[ty] = RemoveFirst(@, cb)]
    ELSE b

\* clear_subscribers(bus, event_type)
ClearSubscribers(b, ty) ==
    [b EXCEPT !.subscribers = Pop(@, ty), !.async_subscribers = Pop(@, ty)]

\* clear_subscribers(bus, None)
ClearAllSubscribers(b) ==
    [b EXCEPT !.subscribers = EmptyDict, !.async_subscribers = EmptyDict]

\* what the body of callback cb does with the bus while emit_event calls it:
\* cbB calls the closure subscribe_event returned for it or for cbA, or
\* subscribes cbA, as the application wrote it; the other callbacks leave
\* the bus alone
CallbackBody(b, ty, cb) ==
    IF cb # "cbB" \/ onCall = "return" THEN b
    ELSE IF onCall = "unsubscribe_self" THEN UnsubscribeFn(b, ty, "cbB")
    ELSE IF onCall = "unsubscribe_cbA" THEN UnsubscribeFn(b, ty, "cbA")
    ELSE SubscribeEvent(b, ty, "cbA")

\* faulty variant of SyncFanOut: the call is not guarded, the first raising
\* subscriber ends the loop and the exception reaches the caller
RECURSIVE SyncFanOutUnguarded(_, _, _)
SyncFanOutUnguarded(r, ty, i) ==
    LET subs == Get(r.bus.subscribers, ty) IN
    IF i > Len(subs) THEN r
    ELSE IF RaisesAtCall(subs[i])
         THEN [r EXCEPT !.calls = Append(@, subs[i]), !.raised = TRUE]
         ELSE SyncFanOutUnguarded([r EXCEPT !.calls = Append(@, subs[i])], ty, i + 1)

\* the loop "for callback in callbacks: try: callback(data) except Exception:
\* error_count += 1" over the list of the type, from index i on;
\* r = [bus, calls, raised]
RECURSIVE SyncFanOut(_, _, _)
SyncFanOut(r, ty, i) ==
    LET subs == Get(r.bus.subscribers, ty) IN
    IF i > Len(subs) THEN r
    ELSE LET cb == subs[i]
             r1 == [r EXCEPT !.calls = Append(@, cb),
                             !.bus.error_count = IF RaisesAtCall(cb) THEN @ + 1 ELSE @]
         IN SyncFanOut([r1 EXCEPT !.bus = CallbackBody(@, ty, cb)], ty, i + 1)

\* emit_event: count the event, then fan out to the sync subscribers of the type
EmitEvent(b, ty) ==
    SyncFanOut([bus |-> [b EXCEPT !.event_count = @ + 1], calls |-> <<>>, raised |-> FALSE],
               ty, 1)

\* faulty variant of AsyncStart: only the first async subscriber is called
AsyncStartFirstOnly(r, ty, i) ==
    LET subs == Get(r.bus.async_subscribers, ty) IN
    IF subs = <<>> \/ i > 1 THEN r ELSE [r EXCEPT !.tasks = <<subs[1]>>]

\* the loop of emit_event_async over the async subscribers: a callback that
\* raises when called is counted, every other call yields a coroutine that is
\* wrapped in a task; r = [bus, tasks]
RECURSIVE AsyncStart(_, _, _)
AsyncStart(r, ty, i) ==
    LET subs == Get(r.bus.async_subscribers, ty) IN
    IF i > Len(subs) THEN r
    ELSE LET cb == subs[i]
             r1 == IF RaisesAtCall(cb)
                   THEN [r EXCEPT !.bus.error_count = @ + 1]
                   ELSE [r EXCEPT !.tasks = Append(@, cb)]
         IN AsyncStart(r1, ty, i + 1)

\* number of subscribers of a list that raise when called
Raisers(subs) == Cardinality({i \in 1..Len(subs) : RaisesAtCall(subs[i])})

RECURSIVE SumOver(_, _)
SumOver(f, ks) ==
    IF ks = {} THEN 0
    ELSE LET k == CHOOSE x \in ks : TRUE IN f[k] + SumOver(f, ks \ {k})

\* subscribe calls made so far
SubscribeCalls == SumOver(regCount, DOMAIN regCount)

\* subscribe calls made so far with one callback, whatever the type
Registrations(cb) == SumOver(regCount, {k \in DOMAIN regCount : k[2] = cb})

NoOp == [op |-> "none"]

IdleEmit == [pc |-> "idle", type |-> "none", tasks |-> <<>>, left |-> {}, ran |-> <<>>]

(***************************************************************************)
(* Controller: controller.py, providers/binance.py, storage.py            *)
(***************************************************************************)
\* the registered providers, in the order of state["providers"]
ProvOrder == <<"p1", "p2">>

Providers == Range(ProvOrder)

NProv == Len(ProvOrder)

TaskIds == 1..MaxTasks

\* event kinds a provider stream carries in the model
MsgKinds == {"trade", "candle"}

\* the one subscription the application asks for
TheSub == "s1"

\* an event counter of the controller's bus stops at CountCap
Cap(n) == IF n > CountCap THEN CountCap ELSE n

CapBus(b) == [b EXCEPT !.event_count = Cap(@), !.error_count = Cap(@)]

\* the application's on_trade handler raises; its other handlers return
HandlerRaises(kind) == kind = "trade"

\* the application's bridge emit raises for trade events
BridgeRaises(kind) == kind = "trade"

\* create_binance_provider; the HTTP session is not modelled, its close is
\* taken as immediate
CreateProvider ==
    [status |-> "disconnected", ws |-> FALSE, ping |-> FALSE, subs |-> <<>>,
     reconnect_count |-> 0]

\* create_storage_buffer
CreateStorage == [running |-> FALSE, flush_task |-> "none", buffer |-> 0]

\* a task slot not in use: no task, or one that has finished
FreeTask == [prov |-> "none", pc |-> "none", att |-> 0, old |-> <<>>,
             cancel |-> FALSE, ws |-> "none"]

IdleApp == [pc |-> "idle", i |-> 0, snap |-> {}, log |-> <<>>]

\* ingestion tasks of a provider that have not finished
LiveTasks(q) == {t \in TaskIds : task[t].prov = q}

FreeIds(tk) == {t \in TaskIds : tk[t].pc = "none"}

\* the slot the next created task takes
NewId(tk) == CHOOSE t \in FreeIds(tk) : \A u \in FreeIds(tk) : t <= u

\* asyncio.create_task(_process_provider_messages(state, name, provider_state))
CreateTask(q) == [FreeTask EXCEPT !.prov = q, !.pc = "new"]

\* state["tasks"] when task t finishes: the list keeps the finished task
\* objects until stop clears it; they are all written as one leading 0
EndInList(ts, t) ==
    IF t \notin Range(ts) THEN ts
    ELSE <<0>> \o SelectSeq(ts, LAMBDA x : x # t /\ x # 0)

\* a gather that waits for task t no longer does once t has finished
Forget(a, t) == [a EXCEPT !.snap = @ \ {t}]

\* connect_binance up to "await ws_connect"
BeginConnect(p) == [p EXCEPT !.status = "connecting"]

\* connect_binance after ws_connect returned
ConnectOk(p) ==
    [p EXCEPT !.ws = TRUE, !.status = "connected", !.reconnect_count = 0, !.ping = TRUE]

\* connect_binance after ws_connect raised
ConnectFail(p) == [p EXCEPT !.status = "error"]

\* disconnect_binance: the next await from step k on (1 the cancelled ping
\* task, 2 the close of the WebSocket), "end" when nothing is left to await
DiscStage(p, k) ==
    IF k <= 1 /\ p.ping THEN "ping"
    ELSE IF k <= 2 /\ p.ws THEN "ws"
    ELSE "end"

\* disconnect_binance: its last two statements
DiscEnd(p) == [p EXCEPT !.status = "disconnected", !.subs = <<>>]

\* disconnect_binance after the await of step k returned
DiscStep(p, k) == IF k = 1 THEN [p EXCEPT !.ping = FALSE] ELSE [p EXCEPT !.ws = FALSE]

\* closing the provider's WebSocket ends the iteration of the tasks that read it
CloseWs(tk, q) ==
    [t \in TaskIds |-> IF tk[t].prov = q /\ tk[t].ws = "cur"
                       THEN [tk[t] EXCEPT !.ws = "closed"] ELSE tk[t]]

\* connect_binance stores a new session: a session stored before is not
\* closed, the tasks reading it keep it
LeakWs(tk, q) ==
    [t \in TaskIds |-> IF tk[t].prov = q /\ tk[t].ws = "cur"
                       THEN [tk[t] EXCEPT !.ws = "leak"] ELSE tk[t]]

\* buffer_record: append; the model counts up to batch_size
BufferRecord(st) == [st EXCEPT !.buffer = IF @ < BatchSize THEN @ + 1 ELSE @]

\* faulty variant of HandlerStage: the handler call is not guarded
HandlerStageUnguarded(r, c, kind) ==
    IF r.raised \/ kind \notin c.handlers THEN r
    ELSE [r EXCEPT !.obs = Append(@, "handler"), !.raised = HandlerRaises(kind)]

\* _dispatch_event, "Buffer to storage"
StorageStage(r, c, kind, data) ==
    IF r.raised \/ ~c.storage \/ data = "null" THEN r
    ELSE [r EXCEPT !.obs = Append(@, "storage"), !.storage = BufferRecord(@)]

\* _dispatch_event, "Call direct handlers": the handler of the kind, if one
\* is registered, inside try/except Exception
HandlerStage(r, c, kind) ==
    IF r.raised \/ kind \notin c.handlers THEN r
    ELSE [r EXCEPT !.obs = Append(@, "handler")]

\* _dispatch_event, "Emit to internal event bus"
BusStage(r, c, kind) ==
    IF r.raised THEN r
    ELSE LET e == EmitEvent(r.bus, kind)
         IN [r EXCEPT !.obs = Append(@, "bus"), !.bus = e.bus,
                      !.calls = e.calls, !.raised = e.raised]

\* _dispatch_event, "Emit to external event bus if configured", inside
\* try/except Exception
BridgeStage(r, c, kind) ==
    IF r.raised \/ ~c.bridge THEN r
    ELSE [r EXCEPT !.obs = Append(@, "bridge")]

\* faulty variant of DispatchEvent: the internal bus is emitted to first
DispatchEventBusFirst(c, b, st, kind, data) ==
    LET r0 == [bus |-> b, storage |-> st, obs |-> <<>>, calls |-> <<>>, raised |-> FALSE]
    IN BridgeStage(HandlerStage(StorageStage(BusStage(r0, c, kind), c, kind, data), c, kind),
                   c, kind)

\* _dispatch_event
DispatchEvent(c, b, st, kind, data) ==
    LET r0 == [bus |-> b, storage |-> st, obs |-> <<>>, calls |-> <<>>, raised |-> FALSE]
    IN BridgeStage(BusStage(HandlerStage(StorageStage(r0, c, kind, data), c, kind), c, kind),
                   c, kind)

\* faulty variant of EmitErrorRaw: the error event is emitted twice
EmitErrorTwice(b) == EmitEvent(EmitEvent(b, "error").bus, "error").bus

\* _emit_error: the on_error handler inside try/except, then the bus
EmitErrorRaw(b) == EmitEvent(b, "error").bus

EmitError(b) == CapBus(EmitErrorRaw(b))

\* the number of events one _emit_error puts on the bus
ErrorEvents(b) == EmitErrorRaw(b).event_count - b.event_count

\* _emit_status_change: the on_status_change handler inside try/except, then the bus
EmitStatusChange(b) == CapBus(EmitEvent(b, "status_change").bus)

\* faulty variant of StartOnConnectError: start_controller without its try/except
StartOnConnectErrorRaise == "raise"

\* start_controller: a connect that raised is caught by "except Exception"
\* and the loop goes on with the next provider
StartOnConnectError == "continue"

\* stop_controller: a disconnect that raised is caught by "except Exception"
\* and the loop goes on with the next provider
StopOnDisconnectError == "continue"

\* a bus as create_event_bus returns it, nothing observed yet
BusFresh ==
    /\ bus = CreateEventBus
    /\ aemit = IdleEmit
    /\ regCount = [k \in SyncMenu \cup AsyncMenu |-> 0]
    /\ unsubCalled = {}
    /\ closuresCalled = [k \in SyncMenu \cup AsyncMenu |-> 0]
    /\ onCall = "return"
    /\ lastOp = NoOp

\* the controller as create_controller returns it
CtlFresh ==
    /\ running = FALSE
    /\ tasks = <<>>
    /\ task = [t \in TaskIds |-> FreeTask]
    /\ prov = [q \in Providers |-> CreateProvider]
    /\ storage = CreateStorage
    /\ app = IdleApp
    /\ env = [faults |-> 0, calls |-> 0, yielded |-> 0]

\* the configurations create_controller is given in the model
FullConfig == [storage |-> TRUE, handlers |-> {"trade", "candle"}, bridge |-> TRUE]

BareConfig == [storage |-> FALSE, handlers |-> {}, bridge |-> FALSE]

InitBus == BusFresh /\ CtlFresh /\ cfg = BareConfig /\ RelUnused

\* the application calls subscribe_event(bus, ty, cb) and keeps the closure
BusSubscribe(ty, cb) ==
    /\ SubscribeCalls < MaxSubs
    /\ bus' = SubscribeEvent(bus, ty, cb)
    /\ regCount' = [regCount EXCEPT ![<<ty, cb>>] = @ + 1]
    /\ lastOp' = NoOp
    /\ UNCHANGED <<aemit, unsubCalled, closuresCalled, onCall>>
    /\ UNCHANGED ctlVars
    /\ UNCHANGED relVars

\* the application calls subscribe_event_async(bus, ty, cb) and keeps the closure
BusSubscribeAsync(ty, cb) ==
    /\ SubscribeCalls < MaxSubs
    /\ bus' = SubscribeEventAsync(bus, ty, cb)
    /\ regCount' = [regCount EXCEPT ![<<ty, cb>>] = @ + 1]
    /\ lastOp' = NoOp
    /\ UNCHANGED <<aemit, unsubCalled, closuresCalled, onCall>>
    /\ UNCHANGED ctlVars
    /\ UNCHANGED relVars

\* a closure is called for the first time (again false) or once more
CallClosure(ty, cb, again) ==
    IF again
    THEN closuresCalled[<<ty, cb>>] > 0 /\ UNCHANGED closuresCalled
    ELSE /\ closuresCalled[<<ty, cb>>] < regCount[<<ty, cb>>]
         /\ closuresCalled' = [closuresCalled EXCEPT ![<<ty, cb>>] = @ + 1]

\* the application calls a closure returned by subscribe_event(bus, ty, cb)
BusUnsubscribe(ty, cb, again) ==
    /\ regCount[<<ty, cb>>] > 0
    /\ CallClosure(ty, cb, again)
    /\ bus' = UnsubscribeFn(bus, ty, cb)
    /\ unsubCalled' = unsubCalled \cup {cb}
    /\ lastOp' = [op |-> "unsubscribe", type |-> ty, cb |-> cb, again |-> again,
                  before |-> Get(bus.subscribers, ty),
                  after |-> Get(bus'.subscribers, ty)]
    /\ UNCHANGED <<aemit, regCount, onCall>>
    /\ UNCHANGED ctlVars
    /\ UNCHANGED relVars

\* the application calls a closure returned by subscribe_event_async(bus, ty, cb)
BusUnsubscribeAsync(ty, cb, again) ==
    /\ regCount[<<ty, cb>>] > 0
    /\ CallClosure(ty, cb, again)
    /\ bus' = UnsubscribeAsyncFn(bus, ty, cb)
    /\ unsubCalled' = unsubCalled \cup {cb}
    /\ lastOp' = [op |-> "unsubscribe_async", type |-> ty, cb |-> cb, again |-> again,
                  before |-> Get(bus.async_subscribers, ty),
                  after |-> Get(bus'.async_subscribers, ty)]
    /\ UNCHANGED <<aemit, regCount, onCall>>
    /\ UNCHANGED ctlVars
    /\ UNCHANGED relVars

\* the application calls emit_event(bus, ty, data)
BusEmit(ty) ==
    /\ bus.event_count < MaxEvents
    /\ LET r == EmitEvent(bus, ty) IN
         /\ bus' = r.bus
         /\ lastOp' = [op |-> "emit", type |-> ty, subs |-> Get(bus.subscribers, ty),
                       calls |-> r.calls, raised |-> r.raised,
                       errors |-> r.bus.error_count - bus.error_count]
    /\ UNCHANGED <<aemit, regCount, unsubCalled, closuresCalled, onCall>>
    /\ UNCHANGED ctlVars
    /\ UNCHANGED relVars

\* the application awaits emit_event_async(bus, ty, data): everything up to
\* "await asyncio.gather(*tasks)" runs without suspension
BusEmitAsyncBegin(ty) ==
    /\ aemit.pc = "idle"
    /\ bus.event_count < MaxEvents
    /\ LET r == EmitEvent(bus, ty)
           a == AsyncStart([bus |-> r.bus, tasks |-> <<>>], ty, 1)
       IN
         /\ bus' = a.bus
         /\ lastOp' = [op |-> "emit_async", type |-> ty,
                       subs |-> Get(bus.subscribers, ty),
                       calls |-> r.calls, raised |-> r.raised,
                       errors |-> a.bus.error_count - bus.error_count]
         /\ aemit' = IF a.tasks = <<>> THEN IdleEmit
                     ELSE [pc |-> "gather", type |-> ty, tasks |-> a.tasks,
                           left |-> 1..Len(a.tasks), ran |-> <<>>]
    /\ UNCHANGED <<regCount, unsubCalled, closuresCalled, onCall>>
    /\ UNCHANGED ctlVars
    /\ UNCHANGED relVars

\* the event loop runs one of the tasks gather waits for; its exception, if
\* any, is kept in the task (return_exceptions=True) and is not counted
AsyncTaskRun(i) ==
    /\ aemit.pc = "gather"
    /\ i \in aemit.left
    /\ aemit' = [aemit EXCEPT !.left = @ \ {i}, !.ran = Append(@, aemit.tasks[i])]
    /\ lastOp' = NoOp
    /\ UNCHANGED <<bus, regCount, unsubCalled, closuresCalled, onCall>>
    /\ UNCHANGED ctlVars
    /\ UNCHANGED relVars

\* gather completes once every task is done, emit_event_async returns
BusEmitAsyncEnd ==
    /\ aemit.pc = "gather"
    /\ aemit.left = {}
    /\ aemit' = IdleEmit
    /\ lastOp' = [op |-> "emit_async_return", ran |-> aemit.ran]
    /\ UNCHANGED <<bus, regCount, unsubCalled, closuresCalled, onCall>>
    /\ UNCHANGED ctlVars
    /\ UNCHANGED relVars

\* the application calls clear_subscribers(bus, ty)
BusClear(ty) ==
    /\ bus' = ClearSubscribers(bus, ty)
    /\ lastOp' = NoOp
    /\ UNCHANGED <<aemit, regCount, unsubCalled, closuresCalled, onCall>>
    /\ UNCHANGED ctlVars
    /\ UNCHANGED relVars

\* the application calls clear_subscribers(bus)
BusClearAll ==
    /\ bus' = ClearAllSubscribers(bus)
    /\ lastOp' = NoOp
    /\ UNCHANGED <<aemit, regCount, unsubCalled, closuresCalled, onCall>>
    /\ UNCHANGED ctlVars
    /\ UNCHANGED relVars

NextBus ==
    \/ \E k \in SyncMenu : BusSubscribe(k[1], k[2])
    \/ \E k \in AsyncMenu : BusSubscribeAsync(k[1], k[2])
    \/ \E k \in SyncMenu, again \in BOOLEAN : BusUnsubscribe(k[1], k[2], again)
    \/ \E k \in AsyncMenu, again \in BOOLEAN : BusUnsubscribeAsync(k[1], k[2], again)
    \/ \E ty \in BusTypes : BusEmit(ty)
    \/ \E ty \in BusTypes : BusEmitAsyncBegin(ty)
    \/ \E i \in 1..MaxSubs : AsyncTaskRun(i)
    \/ BusEmitAsyncEnd
    \/ \E ty \in BusTypes : BusClear(ty)
    \/ BusClearAll

SpecBus == InitBus /\ [][NextBus]_vars

\* what cbB may do when it is called
OnCallMenu == {"return", "unsubscribe_self", "unsubscribe_cbA", "subscribe_cbA"}

\* a fresh bus whose callback cbB was written in one of these ways
InitReentrant ==
    /\ bus = CreateEventBus
    /\ aemit = IdleEmit
    /\ regCount = [k \in SyncMenu \cup AsyncMenu |-> 0]
    /\ unsubCalled = {}
    /\ closuresCalled = [k \in SyncMenu \cup AsyncMenu |-> 0]
    /\ onCall \in OnCallMenu
    /\ lastOp = NoOp
    /\ CtlFresh /\ cfg = BareConfig /\ RelUnused

\* the bus driven directly, with a callback that uses the bus when called
SpecReentrant == InitReentrant /\ [][NextBus]_vars

(***************************************************************************)
(* The ingestion tasks: _process_provider_messages                         *)
(***************************************************************************)
busGhosts == <<aemit, regCount, unsubCalled, closuresCalled, onCall>>

\* an operation of the environment returns (ok) or raises, within the budget
Outcome(ok) ==
    IF ok THEN UNCHANGED env
    ELSE env.faults < MaxFaults /\ env' = [env EXCEPT !.faults = @ + 1]

\* the application makes a call, within the budget
Call == env.calls < MaxCalls /\ env' = [env EXCEPT !.calls = @ + 1]

\* what a step of a task leaves behind
Effect(tk, pv, ts, a) == task' = tk /\ prov' = pv /\ tasks' = ts /\ app' = a

\* task t finishes
EndTask(t, tk, pv) ==
    Effect([tk EXCEPT ![t] = FreeTask], pv, EndInList(tasks, t), Forget(app, t))

\* reconnect_binance from step k of its disconnect on: the task suspends at
\* the next await; after the disconnect the count goes up and the first
\* connect attempt begins
Reconnecting(t, pv, tk, k, old) ==
    LET q == tk[t].prov
        s == DiscStage(pv[q], k)
    IN IF s = "end"
       THEN Effect([tk EXCEPT ![t].pc = "rc_connect", ![t].att = 0,
                              ![t].old = old, ![t].ws = "none"],
                   [pv EXCEPT ![q] = BeginConnect([DiscEnd(@) EXCEPT !.reconnect_count = @ + 1])],
                   tasks, app)
       ELSE Effect([tk EXCEPT ![t].pc = "rc_" \o s, ![t].old = old, ![t].ws = "none"],
                   pv, tasks, app)

\* _process_provider_messages, "except Exception": the error event, then the
\* reconnect if the controller is running
IterException(t, b, pv, tk) ==
    /\ bus' = EmitError(b)
    /\ IF ~running THEN EndTask(t, tk, pv)
       ELSE Reconnecting(t, pv, tk, 1, pv[tk[t].prov].subs)

\* the task starts: iter_binance_messages returns at once without a session
T_Begin(t) ==
    /\ task[t].pc = "new" /\ ~task[t].cancel
    /\ IF prov[task[t].prov].ws
       THEN Effect([task EXCEPT ![t].pc = "iter", ![t].ws = "cur"], prov, tasks, app)
       ELSE EndTask(t, task, prov)
    /\ lastOp' = NoOp
    /\ UNCHANGED <<bus, busGhosts, cfg, running, storage>>
    /\ UNCHANGED env
    /\ UNCHANGED relVars

\* faulty variant of StillRunning: the loop does not look at the flag
StillRunningUnchecked(flag) == TRUE

\* _process_provider_messages: "if not controller_state['running']: break"
StillRunning(flag) == flag

\* faulty variant of NextMessage: the stream yields its last message again
NextMessageAgain(n) == n

\* iter_binance_messages, "async for msg in ws": the message the stream
\* yields after n messages were yielded, numbered in the order of the yields
NextMessage(n) == n + 1

\* the stream yields an event: the running flag is checked, then the event
\* is dispatched
T_Message(t, kind) ==
    /\ task[t].pc = "iter" /\ ~task[t].cancel /\ task[t].ws \in {"cur", "leak"}
    /\ env.yielded < MaxYielded
    /\ env' = [env EXCEPT !.yielded = @ + 1]
    /\ IF ~StillRunning(running)
       THEN /\ EndTask(t, task, prov)
            /\ lastOp' = [op |-> "not_dispatched", task |-> t, kind |-> kind]
            /\ UNCHANGED <<bus, storage>>
       ELSE LET r == DispatchEvent(cfg, bus, storage, kind, "data")
            IN /\ storage' = r.storage
               /\ IF r.raised
                  THEN IterException(t, r.bus, prov, task)
                  ELSE bus' = CapBus(r.bus) /\ UNCHANGED <<task, prov, tasks, app>>
               /\ lastOp' = [op |-> "deliver", task |-> t, kind |-> kind, obs |-> r.obs,
                             calls |-> r.calls, raised |-> r.raised,
                             prov |-> task[t].prov, seq |-> NextMessage(env.yielded)]
    /\ UNCHANGED <<busGhosts, cfg, running>>
    /\ UNCHANGED relVars

\* the stream raises a transport error
T_StreamError(t) ==
    /\ task[t].pc = "iter" /\ ~task[t].cancel /\ task[t].ws \in {"cur", "leak"}
    /\ IterException(t, bus, prov, task)
    /\ lastOp' = [op |-> "stream_error", task |-> t, prov |-> task[t].prov,
                  errors |-> ErrorEvents(bus), was_running |-> running]
    /\ UNCHANGED <<busGhosts, cfg, running, storage>>
    /\ Outcome(FALSE)
    /\ UNCHANGED relVars

\* the stream ends (closed by the peer or by a disconnect): the iteration
\* ends without raising
T_StreamEnd(t) ==
    /\ task[t].pc = "iter" /\ ~task[t].cancel
    /\ EndTask(t, task, prov)
    /\ lastOp' = NoOp
    /\ UNCHANGED <<bus, busGhosts, cfg, running, storage>>
    /\ UNCHANGED env
    /\ UNCHANGED relVars

\* a requested cancellation is delivered at the await the task is suspended
\* at: the stream iterator logs it and ends, everywhere else it ends the task
T_Cancelled(t) ==
    /\ task[t].cancel
    /\ task[t].pc \in {"new", "iter", "rc_ws", "rc_connect", "rc_sub", "rc_sleep"}
    /\ EndTask(t, task, prov)
    /\ lastOp' = NoOp
    /\ UNCHANGED <<bus, busGhosts, cfg, running, storage>>
    /\ UNCHANGED env
    /\ UNCHANGED relVars

\* disconnect_binance: "with suppress(CancelledError): await ping_task"
\* returns, also when the task itself was cancelled meanwhile
T_PingResume(t) ==
    /\ task[t].pc = "rc_ping"
    /\ Reconnecting(t, [prov EXCEPT ![task[t].prov] = DiscStep(@, 1)],
                    [task EXCEPT ![t].cancel = FALSE], 2, task[t].old)
    /\ lastOp' = NoOp
    /\ UNCHANGED <<bus, busGhosts, cfg, running, storage>>
    /\ UNCHANGED env
    /\ UNCHANGED relVars

\* disconnect_binance: the close of the WebSocket returns, or it raises
\* (reconnect_binance raises, "except Exception as reconnect_error" ends the task)
T_CloseResume(t, ok) ==
    /\ task[t].pc = "rc_ws" /\ ~task[t].cancel
    /\ LET q == task[t].prov
       IN IF ok
          THEN /\ Reconnecting(t, [prov EXCEPT ![q] = DiscStep(@, 2)], CloseWs(task, q), 3,
                               task[t].old)
               /\ lastOp' = NoOp
          ELSE /\ EndTask(t, task, prov)
               /\ lastOp' = [op |-> "reconnect_failed", task |-> t, prov |-> q]
    /\ UNCHANGED <<bus, busGhosts, cfg, running, storage>>
    /\ Outcome(ok)
    /\ UNCHANGED relVars

\* with_exponential_backoff: the attempt raised; the last one re-raises
\* (the task logs and ends), the others sleep
AttemptFailed(t, pv, tk) ==
    IF tk[t].att >= MaxAttempts - 1
    THEN /\ EndTask(t, tk, pv)
         /\ lastOp' = [op |-> "exhausted", task |-> t, prov |-> tk[t].prov,
                       attempts |-> tk[t].att + 1]
    ELSE /\ Effect([tk EXCEPT ![t].pc = "rc_sleep"], pv, tasks, app)
         /\ lastOp' = NoOp

\* reconnect_binance returned: one replacement task is created and appended
ReconnectDone(t, pv, tk) ==
    LET q == tk[t].prov
        tk1 == [tk EXCEPT ![t] = FreeTask]
        id == NewId(tk1)
    IN /\ Effect([tk1 EXCEPT ![id] = CreateTask(q)], pv,
                 Append(EndInList(tasks, t), id), Forget(app, t))
       /\ lastOp' = [op |-> "reconnected", task |-> t, prov |-> q,
                     attempts |-> tk[t].att + 1, spawned |-> <<id>>]

\* do_reconnect: connect_binance returns or raises
T_ConnectResume(t, ok) ==
    /\ task[t].pc = "rc_connect" /\ ~task[t].cancel
    /\ LET q == task[t].prov
           tk == IF prov[q].ws THEN LeakWs(task, q) ELSE task
       IN IF ~ok
          THEN AttemptFailed(t, [prov EXCEPT ![q] = ConnectFail(@)], task)
          ELSE IF task[t].old # <<>>
               THEN /\ Effect([tk EXCEPT ![t].pc = "rc_sub"],
                              [prov EXCEPT ![q] = ConnectOk(@)], tasks, app)
                    /\ lastOp' = NoOp
               ELSE ReconnectDone(t, [prov EXCEPT ![q] = ConnectOk(@)], tk)
    /\ UNCHANGED <<bus, busGhosts, cfg, running, storage>>
    /\ Outcome(ok)
    /\ UNCHANGED relVars

\* do_reconnect: subscribe_binance(old_subscriptions) returns or its send raises
T_SubResume(t, ok) ==
    /\ task[t].pc = "rc_sub" /\ ~task[t].cancel
    /\ IF ok
       THEN ReconnectDone(t, [prov EXCEPT ![task[t].prov].subs = @ \o task[t].old], task)
       ELSE AttemptFailed(t, prov, task)
    /\ UNCHANGED <<bus, busGhosts, cfg, running, storage>>
    /\ Outcome(ok)
    /\ UNCHANGED relVars

\* with_exponential_backoff: the sleep is over, the next attempt begins
T_SleepResume(t) ==
    /\ task[t].pc = "rc_sleep" /\ ~task[t].cancel
    /\ Effect([task EXCEPT ![t].pc = "rc_connect", ![t].att = @ + 1],
              [prov EXCEPT ![task[t].prov] = BeginConnect(@)], tasks, app)
    /\ lastOp' = NoOp
    /\ UNCHANGED <<bus, busGhosts, cfg, running, storage>>
    /\ UNCHANGED env
    /\ UNCHANGED relVars

(***************************************************************************)
(* The application: start_controller, stop_controller, subscribe           *)
(***************************************************************************)
\* start_storage_buffer, called by start_controller if a buffer is configured
StartStorageBuffer(c, st) ==
    IF c.storage THEN [st EXCEPT !.running = TRUE, !.flush_task = "running"] ELSE st

\* start_controller up to its first connect: the flag, the storage buffer,
\* then connect_binance of the first provider up to its await
AppStart ==
    /\ app.pc = "idle"
    /\ running' = TRUE
    /\ storage' = StartStorageBuffer(cfg, storage)
    /\ prov' = [prov EXCEPT ![ProvOrder[1]] = BeginConnect(@)]
    /\ app' = [IdleApp EXCEPT !.pc = "start_connect", !.i = 1]
    /\ lastOp' = NoOp
    /\ UNCHANGED <<bus, busGhosts, cfg, tasks, task>>
    /\ Call
    /\ UNCHANGED relVars

\* start_controller: connect_binance of provider i returns (a task is
\* created and appended, the status change is emitted) or raises (the error
\* event is emitted); then the loop goes on
AppStartConnect(ok) ==
    /\ app.pc = "start_connect"
    /\ ok => FreeIds(task) # {}
    /\ LET q == ProvOrder[app.i]
           id == NewId(task)
           raised == ~ok /\ StartOnConnectError = "raise"
           more == app.i < NProv /\ ~raised
           pv == [prov EXCEPT ![q] = IF ok THEN ConnectOk(@) ELSE ConnectFail(@)]
           tk == IF prov[q].ws THEN LeakWs(task, q) ELSE task
           log == Append(app.log, <<q, ok>>)
       IN /\ prov' = IF more THEN [pv EXCEPT ![ProvOrder[app.i + 1]] = BeginConnect(@)]
                     ELSE pv
          /\ task' = IF ok THEN [tk EXCEPT ![id] = CreateTask(q)] ELSE task
          /\ tasks' = IF ok THEN Append(tasks, id) ELSE tasks
          /\ bus' = IF ok THEN EmitStatusChange(bus)
                    ELSE IF raised THEN bus ELSE EmitError(bus)
          /\ app' = IF more THEN [app EXCEPT !.i = @ + 1, !.log = log] ELSE IdleApp
          /\ lastOp' = [op |-> "start_connect", prov |-> q, ok |-> ok,
                        errors |-> IF ok \/ raised THEN 0 ELSE ErrorEvents(bus),
                        spawned |-> IF ok THEN <<id>> ELSE <<>>,
                        raised |-> raised, returned |-> ~more, log |-> log]
    /\ UNCHANGED <<busGhosts, cfg, running, storage>>
    /\ Outcome(ok)
    /\ UNCHANGED relVars

\* stop_controller after its disconnect loop: stop_storage_buffer up to its
\* next await (1 the cancelled flush task, 2 the write of the final flush),
\* or the return of stop
StopStorage(st, phase) ==
    IF ~cfg.storage THEN [storage |-> st, pc |-> "idle"]
    ELSE IF phase = 1 /\ st.flush_task = "running"
         THEN [storage |-> [st EXCEPT !.running = FALSE], pc |-> "stop_flushwait"]
    ELSE IF st.buffer > 0
         THEN [storage |-> [st EXCEPT !.running = FALSE], pc |-> "stop_write"]
    ELSE [storage |-> [st EXCEPT !.running = FALSE], pc |-> "idle"]

\* stop_controller's disconnect loop from provider i, step k of its
\* disconnect: up to the next await
RECURSIVE StopLoop(_, _, _, _)
StopLoop(pv, i, k, log) ==
    IF i > NProv THEN [prov |-> pv, pc |-> "stop_storage", i |-> i, log |-> log]
    ELSE LET q == ProvOrder[i]
             s == DiscStage(pv[q], k)
         IN IF s = "end"
            THEN StopLoop([pv EXCEPT ![q] = DiscEnd(@)], i + 1, 1, Append(log, <<q, TRUE>>))
            ELSE [prov |-> pv, pc |-> "stop_" \o s, i |-> i, log |-> log]

\* stop_controller returns
StopReturn(log, raised) ==
    /\ app' = IdleApp
    /\ lastOp' = [op |-> "stop_return", log |-> log, raised |-> raised]

\* stop_controller goes on after a step of its disconnect loop
StopContinue(pv, i, k, log) ==
    LET r == StopLoop(pv, i, k, log)
        st == StopStorage(storage, 1)
    IN /\ prov' = r.prov
       /\ IF r.pc = "stop_storage"
          THEN /\ storage' = st.storage
               /\ IF st.pc = "idle" THEN StopReturn(r.log, FALSE)
                  ELSE /\ app' = [app EXCEPT !.pc = st.pc, !.i = r.i, !.log = r.log]
                       /\ lastOp' = NoOp
          ELSE /\ storage' = storage
               /\ app' = [app EXCEPT !.pc = r.pc, !.i = r.i, !.log = r.log]
               /\ lastOp' = NoOp

\* the tasks of the list, cancelled
CancelAll(tk) ==
    [t \in TaskIds |-> IF t \in Range(tasks) THEN [tk[t] EXCEPT !.cancel = TRUE] ELSE tk[t]]

\* stop_controller up to its first await
AppStop ==
    /\ app.pc = "idle"
    /\ running' = FALSE
    /\ task' = CancelAll(task)
    /\ IF tasks # <<>>
       THEN /\ app' = [IdleApp EXCEPT !.pc = "stop_gather", !.snap = Range(tasks) \ {0}]
            /\ lastOp' = NoOp
            /\ UNCHANGED <<prov, storage>>
       ELSE StopContinue(prov, 1, 1, <<>>)
    /\ UNCHANGED <<bus, busGhosts, cfg, tasks>>
    /\ Call
    /\ UNCHANGED relVars

\* faulty variant of GatherReady: gather returns without waiting
GatherReadyAtOnce(a) == TRUE

\* asyncio.gather(*tasks, return_exceptions=True) returns when every task
\* it was given has finished, however it finished
GatherReady(a) == a.snap = {}

\* stop_controller: gather returns; the list is cleared and the disconnect
\* loop begins
AppGatherDone ==
    /\ app.pc = "stop_gather"
    /\ GatherReady(app)
    /\ tasks' = <<>>
    /\ StopContinue(prov, 1, 1, <<>>)
    /\ UNCHANGED <<bus, busGhosts, cfg, running, task>>
    /\ UNCHANGED env
    /\ UNCHANGED relVars

\* stop_controller: an await of disconnect_binance returns, or the close of
\* the WebSocket raises and the loop goes on with the next provider
AppDiscResume(ok) ==
    /\ app.pc \in {"stop_ping", "stop_ws"}
    /\ ok \/ app.pc = "stop_ws"
    /\ LET q == ProvOrder[app.i]
           k == IF app.pc = "stop_ping" THEN 1 ELSE 2
           log == Append(app.log, <<q, FALSE>>)
       IN IF ok
          THEN /\ task' = IF k = 2 THEN CloseWs(task, q) ELSE task
               /\ StopContinue([prov EXCEPT ![q] = DiscStep(@, k)], app.i, k + 1, app.log)
          ELSE /\ task' = task
               /\ IF StopOnDisconnectError = "raise"
                  THEN StopReturn(log, TRUE) /\ UNCHANGED <<prov, storage>>
                  ELSE StopContinue(prov, app.i + 1, 1, log)
    /\ UNCHANGED <<bus, busGhosts, cfg, running, tasks>>
    /\ Outcome(ok)
    /\ UNCHANGED relVars

\* stop_storage_buffer: the cancelled flush task has ended; the final flush
AppFlushWaitResume ==
    /\ app.pc = "stop_flushwait"
    /\ LET st == StopStorage([storage EXCEPT !.flush_task = "finished"], 2)
       IN /\ storage' = st.storage
          /\ IF st.pc = "idle" THEN StopReturn(app.log, FALSE)
             ELSE app' = [app EXCEPT !.pc = st.pc] /\ lastOp' = NoOp
    /\ UNCHANGED <<bus, busGhosts, cfg, running, tasks, task, prov>>
    /\ UNCHANGED env
    /\ UNCHANGED relVars

\* flush_buffer of the final flush: the write returns, or raises and the
\* batch is put back
AppWriteResume(ok) ==
    /\ app.pc = "stop_write"
    /\ storage' = IF ok THEN [storage EXCEPT !.buffer = 0] ELSE storage
    /\ StopReturn(app.log, FALSE)
    /\ UNCHANGED <<bus, busGhosts, cfg, running, tasks, task, prov>>
    /\ Outcome(ok)
    /\ UNCHANGED relVars

\* the subscriptions a reconnect of provider q is about to add again
Pending(q) == {t \in TaskIds : task[t].prov = q /\ task[t].old # <<>>}

\* subscribe(provider, subscriptions) of the controller: subscribe_binance
\* sends only with a session (without one it returns at once, a step that
\* changes nothing)
AppSubscribe(q) ==
    /\ app.pc = "idle"
    /\ Len(prov[q].subs) + Cardinality(Pending(q)) < MaxProvSubs
    /\ prov[q].ws
    /\ app' = [IdleApp EXCEPT !.pc = "sub_send",
                              !.i = CHOOSE i \in 1..NProv : ProvOrder[i] = q]
    /\ lastOp' = NoOp
    /\ UNCHANGED <<bus, busGhosts, cfg, running, tasks, task, prov, storage>>
    /\ Call
    /\ UNCHANGED relVars

\* subscribe_binance: send_json returns (the subscriptions are recorded) or raises
AppSubSend(ok) ==
    /\ app.pc = "sub_send"
    /\ prov' = IF ok THEN [prov EXCEPT ![ProvOrder[app.i]].subs = Append(@, TheSub)] ELSE prov
    /\ app' = IdleApp
    /\ lastOp' = NoOp
    /\ UNCHANGED <<bus, busGhosts, cfg, running, tasks, task, storage>>
    /\ Outcome(ok)
    /\ UNCHANGED relVars

\* the periodic flush, or the flush a full buffer triggers: the write
\* returns, or raises and the batch is put back
StorageFlush(ok) ==
    /\ storage.buffer > 0
    /\ storage.flush_task = "running" \/ storage.buffer >= BatchSize
    /\ storage' = IF ok THEN [storage EXCEPT !.buffer = 0] ELSE storage
    /\ lastOp' = NoOp
    /\ UNCHANGED <<bus, busGhosts, cfg, running, tasks, task, prov, app>>
    /\ Outcome(ok)
    /\ UNCHANGED relVars

\* the bus of the controller with the subscribers the application registered
AppBus == SubscribeEvent(SubscribeEvent(CreateEventBus, "trade", "cbX"), "trade", "cbA")

Init ==
    /\ cfg \in {FullConfig, BareConfig}
    /\ CtlFresh
    /\ bus = AppBus
    /\ aemit = IdleEmit
    /\ regCount = [k \in SyncMenu \cup AsyncMenu |-> 0]
    /\ unsubCalled = {}
    /\ closuresCalled = [k \in SyncMenu \cup AsyncMenu |-> 0]
    /\ onCall = "return"
    /\ lastOp = NoOp
    /\ RelUnused

Next ==
    \/ \E t \in TaskIds : T_Begin(t)
    \/ \E t \in TaskIds, kind \in MsgKinds : T_Message(t, kind)
    \/ \E t \in TaskIds : T_StreamError(t)
    \/ \E t \in TaskIds : T_StreamEnd(t)
    \/ \E t \in TaskIds : T_Cancelled(t)
    \/ \E t \in TaskIds : T_PingResume(t)
    \/ \E t \in TaskIds, ok \in BOOLEAN : T_CloseResume(t, ok)
    \/ \E t \in TaskIds, ok \in BOOLEAN : T_ConnectResume(t, ok)
    \/ \E t \in TaskIds, ok \in BOOLEAN : T_SubResume(t, ok)
    \/ \E t \in TaskIds : T_SleepResume(t)
    \/ AppStart
    \/ \E ok \in BOOLEAN : AppStartConnect(ok)
    \/ AppStop
    \/ AppGatherDone
    \/ \E ok \in BOOLEAN : AppDiscResume(ok)
    \/ AppFlushWaitResume
    \/ \E ok \in BOOLEAN : AppWriteResume(ok)
    \/ \E q \in Providers : AppSubscribe(q)
    \/ \E ok \in BOOLEAN : AppSubSend(ok)
    \/ \E ok \in BOOLEAN : StorageFlush(ok)

Spec == Init /\ [][Next]_vars

(***************************************************************************)
(* Controller properties                                                   *)
(***************************************************************************)
\* the stages a dispatch of this kind has under the configuration
StageApplies(stage, kind) ==
    \/ stage = "storage" /\ cfg.storage
    \/ stage = "handler" /\ kind \in cfg.handlers
    \/ stage = "bus"
    \/ stage = "bridge" /\ cfg.bridge

\* C1: every dispatched event goes through its stages in the fixed order
\* storage (if configured; stream data is never null), direct handler (if
\* one is registered for the kind), internal bus, bridge (if configured).
C1_DispatchOrder ==
    lastOp.op = "deliver" =>
        lastOp.obs = SelectSeq(<<"storage", "handler", "bus", "bridge">>,
                               LAMBDA st : StageApplies(st, lastOp.kind))

\* an event went through all four stages
C1_Witness ==
    /\ lastOp.op = "deliver"
    /\ lastOp.obs = <<"storage", "handler", "bus", "bridge">>

ReconnectPcs == {"rc_ping", "rc_ws", "rc_connect", "rc_sub", "rc_sleep"}

\* C2: a stream error while the controller runs puts exactly one error
\* event on the bus and takes the task into the provider's reconnect; the
\* reconnect makes at most MaxAttempts attempts; when it succeeds the task
\* ends and exactly one new task of the same provider is created and listed.
C2_ErrorThenBoundedReconnect ==
    /\ (lastOp.op = "stream_error" /\ lastOp.was_running) =>
          /\ lastOp.errors = 1
          /\ task[lastOp.task].pc \in ReconnectPcs
          /\ task[lastOp.task].prov = lastOp.prov
    /\ \A t \in TaskIds : task[t].pc \in ReconnectPcs => task[t].att < MaxAttempts
    /\ lastOp.op = "reconnected" =>
          /\ lastOp.attempts <= MaxAttempts
          /\ Len(lastOp.spawned) = 1
          /\ task[lastOp.spawned[1]] = CreateTask(lastOp.prov)
          /\ Cardinality({i \in 1..Len(tasks) : tasks[i] = lastOp.spawned[1]}) = 1
          /\ lastOp.task # lastOp.spawned[1] => task[lastOp.task] = FreeTask

\* a reconnect succeeded at its second attempt and resubscribed
C2_Witness ==
    /\ lastOp.op = "reconnected"
    /\ lastOp.attempts = 2
    /\ prov[lastOp.prov].subs # <<>>

\* C3: when every attempt of the reconnect failed, the task ends, no task is
\* created for the provider, and the provider's status is disconnected.
C3_ExhaustedLeavesDisconnected ==
    lastOp.op = "exhausted" =>
        /\ task[lastOp.task] = FreeTask
        /\ lastOp.attempts = MaxAttempts
        /\ prov[lastOp.prov].status = "disconnected"

\* C4: no provider has two unfinished ingestion tasks at any time, and a
\* provider whose connect raised in start has none.
C4_OneTaskPerProvider ==
    /\ \A q \in Providers : Cardinality(LiveTasks(q)) <= 1
    /\ (lastOp.op = "start_connect" /\ ~lastOp.ok) => LiveTasks(lastOp.prov) = {}

StopPcs == {"stop_gather", "stop_ping", "stop_ws", "stop_flushwait", "stop_write"}

\* the providers of a log of connect or disconnect outcomes, in order
LogProviders(log) == [i \in 1..Len(log) |-> log[i][1]]

\* C5: stop clears the running flag first; it begins to disconnect only
\* when every task it cancelled has finished; it begins to stop the storage
\* buffer only when a disconnect of every provider was attempted, in order,
\* whether or not one raised; and it returns without raising.
C5_StopOrder ==
    /\ app.pc \in StopPcs => ~running
    /\ app.pc \in StopPcs \ {"stop_gather"} => app.snap = {}
    /\ app.pc \in {"stop_gather", "stop_ping", "stop_ws"} =>
          /\ storage.running <=> storage.flush_task = "running"
          /\ LogProviders(app.log) = SubSeq(ProvOrder, 1, Len(app.log))
    /\ app.pc \in {"stop_ping", "stop_ws"} => Len(app.log) = app.i - 1
    /\ app.pc \in {"stop_flushwait", "stop_write"} =>
          /\ LogProviders(app.log) = ProvOrder
          /\ ~storage.running
    /\ lastOp.op = "stop_return" =>
          /\ ~lastOp.raised
          /\ LogProviders(lastOp.log) = ProvOrder
          /\ cfg.storage => ~storage.running

\* the disconnect of the first provider raised, that of the second did not,
\* and the storage buffer was stopped after both
C5_Witness ==
    /\ lastOp.op = "stop_return"
    /\ lastOp.log = <<<<"p1", FALSE>>, <<"p2", TRUE>>>>
    /\ prov["p2"].status = "disconnected"
    /\ cfg.storage
    /\ storage.flush_task = "finished"

\* C6: whenever stop returns it has not raised, running is false, the task
\* list is empty and every provider has status disconnected.
C6_StopLeavesAllDisconnected ==
    lastOp.op = "stop_return" =>
        /\ ~lastOp.raised
        /\ ~running
        /\ tasks = <<>>
        /\ \A q \in Providers : prov[q].status = "disconnected"

\* C7: in start the storage buffer is started before a connect is
\* attempted; a connect that raises puts exactly one error event on the bus,
\* creates no task, does not make start raise, and start goes on with the
\* next provider; a connect that returns creates one task of that provider.
C7_StartIsolatesConnectFailure ==
    /\ (app.pc = "start_connect" /\ cfg.storage) =>
          storage.running /\ storage.flush_task = "running"
    /\ app.pc = "start_connect" => LogProviders(app.log) = SubSeq(ProvOrder, 1, app.i - 1)
    /\ lastOp.op = "start_connect" =>
          /\ ~lastOp.raised
          /\ lastOp.returned <=> LogProviders(lastOp.log) = ProvOrder
          /\ ~lastOp.returned => app.pc = "start_connect"
          /\ ~lastOp.ok => lastOp.errors = 1 /\ lastOp.spawned = <<>>
          /\ lastOp.ok =>
                /\ lastOp.errors = 0
                /\ Len(lastOp.spawned) = 1
                /\ task[lastOp.spawned[1]] = CreateTask(lastOp.prov)

\* the connect of the first provider raised, the second provider was
\* connected and got its task, and start returned
C7_Witness ==
    /\ lastOp.op = "start_connect"
    /\ lastOp.returned
    /\ lastOp.log = <<<<"p1", FALSE>>, <<"p2", TRUE>>>>
    /\ lastOp.spawned # <<>>
    /\ LiveTasks("p1") = {}

\* C8: a callback that raises during dispatch (handler, bus subscriber,
\* bridge) does not end the dispatch: every stage still runs, every bus
\* subscriber of the kind is called, nothing is raised into the task, and
\* the task stays in its message loop on the same stream.
C8_CallbackErrorsContained ==
    lastOp.op = "deliver" =>
        /\ ~lastOp.raised
        /\ \A st \in {"storage", "handler", "bus", "bridge"} :
              StageApplies(st, lastOp.kind) => st \in Range(lastOp.obs)
        /\ lastOp.calls = Get(bus.subscribers, lastOp.kind)
        /\ task[lastOp.task].pc = "iter"
        /\ ~task[lastOp.task].cancel
        /\ task[lastOp.task].ws \in {"cur", "leak"}

\* the handler, a bus subscriber and the bridge all raised for one event
C8_Witness ==
    /\ lastOp.op = "deliver"
    /\ lastOp.kind \in cfg.handlers /\ HandlerRaises(lastOp.kind)
    /\ cfg.bridge /\ BridgeRaises(lastOp.kind)
    /\ \E i \in 1..Len(lastOp.calls) : RaisesAtCall(lastOp.calls[i])
    /\ lastOp.calls[Len(lastOp.calls)] = "cbA"

(***************************************************************************)
(* Event bus properties                                                    *)
(***************************************************************************)
\* C9: emit_event with N sync subscribers of the type, any of which raise,
\* invokes all N once each in subscription order, does not raise to the
\* caller, and adds to error_count exactly the number of subscribers that
\* raised.
C9_EmitIsolatesSubscribers ==
    lastOp.op = "emit" =>
        /\ lastOp.calls = lastOp.subs
        /\ ~lastOp.raised
        /\ lastOp.errors = Raisers(lastOp.subs)

\* a raising subscriber stands between two others in the emitted list
C9_Witness ==
    /\ lastOp.op = "emit"
    /\ Len(lastOp.subs) = 3
    /\ lastOp.subs[2] = "cbX"
    /\ lastOp.calls[3] = "cbB"
    /\ lastOp.errors = 1

\* C10: a callback registered once is not invoked by any emit or emit_async
\* made after its unsubscribe closure was called, and that call removes
\* only this callback: the other subscribers of the type stay, in their
\* relative order.
C10_UnsubscribedNeverInvoked ==
    /\ lastOp.op \in {"emit", "emit_async"} =>
          \A i \in 1..Len(lastOp.calls) :
              ~(Registrations(lastOp.calls[i]) = 1 /\ lastOp.calls[i] \in unsubCalled)
    /\ (lastOp.op = "unsubscribe" /\ Registrations(lastOp.cb) = 1) =>
          /\ lastOp.after = SelectSeq(lastOp.before, LAMBDA x : x # lastOp.cb)
          /\ lastOp.cb \notin Range(Get(bus.subscribers, lastOp.type))

\* cbB was registered once between cbA and cbX and unsubscribed; a later
\* emit invokes cbA then cbX
C10_Witness ==
    /\ lastOp.op \in {"emit", "emit_async"}
    /\ lastOp.type = "trade"
    /\ "cbB" \in unsubCalled
    /\ Registrations("cbB") = 1
    /\ lastOp.calls = <<"cbA", "cbX">>

(***************************************************************************)
(* Retry with exponential backoff: reliability.py                          *)
(***************************************************************************)
\* largest max_attempts given to with_exponential_backoff
MaxRetryAttempts == 4
\* largest number of leading calls of the operation that fail
MaxFailing == 4
\* largest base_delay_ms
MaxBaseDelay == 2
\* largest max_delay_ms
MaxDelayCap == 5

Min(a, b) == IF a <= b THEN a ELSE b

\* delay_ms = min(base_delay_ms * (2**attempt), max_delay_ms)
BackoffDelayUncapped(base_delay_ms, max_delay_ms, attempt) == base_delay_ms * (2 ^ attempt)

BackoffDelay(base_delay_ms, max_delay_ms, attempt) ==
    Min(base_delay_ms * (2 ^ attempt), max_delay_ms)

\* delay_s = delay_ms / 1000, the argument of asyncio.sleep, as the fraction
\* <<numerator, denominator>> of a second
DelaySeconds(delay_ms) == <<delay_ms, 1000>>

\* the operation given to the retrier: its first k calls raise an Exception,
\* call number cancel_at (0: none) raises CancelledError, any other call
\* returns; the exception and the value carry the number of the call
OperationOutcome(r, call) ==
    IF call = r.cancel_at THEN "cancelled"
    ELSE IF call <= r.k THEN "error"
    ELSE "ok"

\* the except clauses: CancelledError is re-raised, an Exception is handled
RetryableAny(outcome) == outcome # "ok"

Retryable(outcome) == outcome = "error"

\* the arguments of one call of with_exponential_backoff and its locals
NewRetry(n, b, m, k, c) ==
    [pc |-> "start", max_attempts |-> n, base_delay_ms |-> b, max_delay_ms |-> m,
     k |-> k, cancel_at |-> c, attempt |-> 0, last_exception |-> 0,
     calls |-> 0, sleeps |-> <<>>, result |-> "none", value |-> 0,
     cancel_seen |-> <<>>]

\* leaving the for loop, or entering its next iteration
ForAttempt(r, attempt) ==
    IF attempt < r.max_attempts
    THEN [r EXCEPT !.pc = "call", !.attempt = attempt]
    ELSE IF r.last_exception # 0
         THEN [r EXCEPT !.pc = "done", !.result = "raised", !.value = r.last_exception]
         ELSE [r EXCEPT !.pc = "done", !.result = "runtime_error"]

InitBackoff ==
    /\ BusFresh /\ CtlFresh /\ cfg = BareConfig
    /\ limiter = Unused /\ breaker = Unused /\ provider = Unused
    /\ store = Unused /\ replay = Unused
    /\ retry \in {NewRetry(n, b, m, k, c) :
                    n \in 0..MaxRetryAttempts, b \in 1..MaxBaseDelay,
                    m \in 1..MaxDelayCap, k \in 0..MaxFailing,
                    c \in 0..MaxRetryAttempts}

\* with_exponential_backoff is called: the loop is entered
RetryBegin ==
    /\ retry.pc = "start"
    /\ retry' = ForAttempt(retry, 0)
    /\ UNCHANGED <<busVars, ctlVars, store, replay, limiter, breaker, provider>>

\* one iteration: await operation() and the except clauses; cancel_seen
\* notes the counts at which a CancelledError was raised
RetryInvoke ==
    /\ retry.pc = "call"
    /\ LET call == retry.calls + 1
           o == OperationOutcome(retry, call)
           r == [retry EXCEPT !.calls = call,
                              !.cancel_seen = IF o = "cancelled"
                                              THEN <<call, Len(retry.sleeps)>> ELSE @]
       IN  retry' =
             IF o = "ok"
             THEN [r EXCEPT !.pc = "done", !.result = "returned", !.value = call]
             ELSE IF ~Retryable(o)
             THEN [r EXCEPT !.pc = "done", !.result = "cancelled"]
             ELSE IF r.attempt = r.max_attempts - 1
             THEN [r EXCEPT !.pc = "done", !.result = "raised", !.value = call,
                            !.last_exception = call]
             ELSE [r EXCEPT !.pc = "sleep", !.last_exception = call,
                            !.sleeps = Append(@, DelaySeconds(
                                BackoffDelay(r.base_delay_ms, r.max_delay_ms, r.attempt)))]
    /\ UNCHANGED <<busVars, ctlVars, store, replay, limiter, breaker, provider>>

\* asyncio.sleep(delay_s) returns: the next iteration
RetrySleepDone ==
    /\ retry.pc = "sleep"
    /\ retry' = ForAttempt(retry, retry.attempt + 1)
    /\ UNCHANGED <<busVars, ctlVars, store, replay, limiter, breaker, provider>>

\* the caller is cancelled while asyncio.sleep(delay_s) is pending: the
\* CancelledError is raised inside the except block and leaves the function
RetrySleepCancelled ==
    /\ retry.pc = "sleep"
    /\ retry.cancel_seen = <<>>
    /\ retry' = [retry EXCEPT !.pc = "done", !.result = "cancelled",
                              !.cancel_seen = <<retry.calls, Len(retry.sleeps)>>]
    /\ UNCHANGED <<busVars, ctlVars, store, replay, limiter, breaker, provider>>

NextBackoff ==
    \/ RetryBegin
    \/ RetryInvoke
    \/ RetrySleepDone
    \/ RetrySleepCancelled

SpecBackoff == InitBackoff /\ [][NextBackoff]_vars

\* C11: with max_attempts = N >= 1 and an operation whose first k calls raise
\* an Exception and which is never cancelled: if k < N the operation is
\* called exactly k+1 times, the sleeps are min(B*2^0, M), ...,
\* min(B*2^(k-1), M) milliseconds in that order and the value of call k+1 is
\* returned; if k >= N the operation is called exactly N times, N-1 sleeps
\* are made and the exception of call N is raised.
C11_BackoffSchedule ==
    (retry.pc = "done" /\ retry.max_attempts >= 1 /\ retry.cancel_seen = <<>>) =>
        LET n == retry.max_attempts
            k == retry.k
        IN  IF k < n
            THEN /\ retry.calls = k + 1
                 /\ retry.sleeps =
                      [i \in 1..k |->
                         <<Min(retry.base_delay_ms * (2 ^ (i - 1)), retry.max_delay_ms), 1000>>]
                 /\ retry.result = "returned" /\ retry.value = k + 1
            ELSE /\ retry.calls = n
                 /\ Len(retry.sleeps) = n - 1
                 /\ retry.result = "raised" /\ retry.value = n

\* three failures, then a return, with the cap reached by the last sleep only
C11_Witness ==
    /\ retry.pc = "done" /\ retry.result = "returned"
    /\ retry.k = 3 /\ retry.calls = 4 /\ retry.cancel_at = 0
    /\ retry.sleeps = <<<<1, 1000>>, <<2, 1000>>, <<3, 1000>>>>

\* C12: once a CancelledError has been raised, by the operation on any
\* attempt or by a backoff sleep, the call has ended with that cancellation:
\* the operation has not been called again and no further sleep has been
\* started, however many attempts remain.
C12_CancellationNotRetried ==
    retry.cancel_seen # <<>> =>
        /\ retry.pc = "done" /\ retry.result = "cancelled"
        /\ retry.calls = retry.cancel_seen[1]
        /\ Len(retry.sleeps) = retry.cancel_seen[2]

\* the second call of the operation raises CancelledError with two attempts left
C12_Witness ==
    /\ retry.result = "cancelled" /\ retry.cancel_at = 2 /\ retry.calls = 2
    /\ retry.max_attempts = 4 /\ retry.k >= 1
    /\ Len(retry.sleeps) = 1

(***************************************************************************)
(* Token bucket rate limiter: reliability.py                               *)
(*                                                                         *)
(* Time is counted in ticks of 1/TicksPerSecond second and tokens in units *)
(* of 1/TicksPerSecond token.  TicksPerSecond is a multiple of every rate  *)
(* of the model, and the token count stays a multiple of the rate, so the  *)
(* products and the quotient of acquire_rate_limit are exact.              *)
(***************************************************************************)
\* largest requests_per_second given to create_rate_limiter
MaxRate == 2
\* latest reading of time.monotonic() at which the caller still lets time pass
MaxClock == 4
\* number of acquire_rate_limit calls explored
MaxAcquires == 4
\* longest time by which asyncio.sleep returns late, in ticks
MaxOversleep == 1

RECURSIVE Factorial(_)
Factorial(n) == IF n <= 1 THEN 1 ELSE n * Factorial(n - 1)

TicksPerSecond == Factorial(MaxRate)

\* create_rate_limiter(requests_per_second) with time.monotonic() = now;
\* log lists, for each completed acquire, the time it slept (-1: it did not
\* suspend) and the tokens it took; still: the caller let no time pass
CreateRateLimiter(requests_per_second, now) ==
    [tokens |-> requests_per_second * TicksPerSecond,
     max_tokens |-> requests_per_second,
     last_refill |-> now,
     refill_rate |-> requests_per_second,
     pc |-> "idle", clock |-> now, wait_time |-> 0, before |-> 0,
     log |-> <<>>, still |-> TRUE]

\* refill tokens based on elapsed time
RefillUncapped(l, now) ==
    [l EXCEPT !.tokens = l.tokens + (now - l.last_refill) * l.refill_rate,
              !.last_refill = now]

Refill(l, now) ==
    [l EXCEPT !.tokens = Min(l.max_tokens * TicksPerSecond,
                             l.tokens + (now - l.last_refill) * l.refill_rate),
              !.last_refill = now]

\* wait_time = (1 - tokens) / refill_rate, in ticks
WaitTimeNone(l) == 0

WaitTime(l) == (TicksPerSecond - l.tokens) \div l.refill_rate

InitLimiter ==
    /\ BusFresh /\ CtlFresh /\ cfg = BareConfig
    /\ retry = Unused /\ breaker = Unused /\ provider = Unused
    /\ store = Unused /\ replay = Unused
    /\ limiter \in {CreateRateLimiter(r, 0) : r \in 1..MaxRate}

\* acquire_rate_limit up to its return or to its await
LimAcquire ==
    /\ limiter.pc = "idle"
    /\ Len(limiter.log) < MaxAcquires
    /\ LET l == Refill(limiter, limiter.clock)
       IN  limiter' =
             IF l.tokens >= TicksPerSecond
             THEN [l EXCEPT !.tokens = @ - TicksPerSecond,
                            !.log = Append(@, [slept |-> -1,
                                               took |-> limiter.tokens - (l.tokens - TicksPerSecond)])]
             ELSE [l EXCEPT !.pc = "wait", !.wait_time = WaitTime(l),
                            !.before = limiter.tokens]
    /\ UNCHANGED <<busVars, ctlVars, store, replay, retry, breaker, provider>>

\* asyncio.sleep(wait_time) returns, not before wait_time has passed
LimWake(late) ==
    /\ limiter.pc = "wait"
    /\ LET now == limiter.clock + limiter.wait_time + late
       IN  limiter' = [limiter EXCEPT !.pc = "idle", !.clock = now,
                                      !.tokens = 0, !.last_refill = now,
                                      !.log = Append(@, [slept |-> now - limiter.clock,
                                                         took |-> limiter.before])]
    /\ UNCHANGED <<busVars, ctlVars, store, replay, retry, breaker, provider>>

\* time passes between two calls
LimTick ==
    /\ limiter.pc = "idle"
    /\ limiter.clock < MaxClock
    /\ limiter' = [limiter EXCEPT !.clock = @ + 1, !.still = FALSE]
    /\ UNCHANGED <<busVars, ctlVars, store, replay, retry, breaker, provider>>

NextLimiter ==
    \/ LimAcquire
    \/ \E late \in 0..MaxOversleep : LimWake(late)
    \/ LimTick

SpecLimiter == InitLimiter /\ [][NextLimiter]_vars

\* C13: a limiter created with capacity >= 1 has 0 <= tokens <= max_tokens
\* in every state: between calls, during a forced wait and after each
\* acquire.
C13_TokensWithinBounds ==
    limiter.pc \in {"idle", "wait"} =>
        /\ 0 <= limiter.tokens
        /\ limiter.tokens <= limiter.max_tokens * TicksPerSecond

\* a forced wait on a fraction of a token, after an acquire that a refill
\* preceded
C13_Witness ==
    /\ limiter.pc = "wait" /\ ~limiter.still
    /\ 0 < limiter.tokens /\ limiter.tokens < TicksPerSecond
    /\ \E i \in 1..Len(limiter.log) : limiter.log[i].took < TicksPerSecond

\* C14: from a fresh bucket of capacity C and rate R, with no time passing
\* between the calls, each of the first C acquires returns without
\* suspending and takes exactly one token, and acquire C+1 suspends for at
\* least 1/R second, after which tokens = 0 and last_refill is the time of
\* the wake-up.
C14_BurstThenWait ==
    (limiter.pc \in {"idle", "wait"} /\ limiter.still) =>
        LET c == limiter.max_tokens
            n == Len(limiter.log)
        IN  /\ \A i \in 1..n :
                 /\ i <= c => limiter.log[i] = [slept |-> -1, took |-> TicksPerSecond]
                 /\ i = c + 1 => limiter.log[i].slept * limiter.refill_rate >= TicksPerSecond
            /\ (n <= c /\ limiter.pc = "idle") =>
                 limiter.tokens = (c - n) * TicksPerSecond
            /\ (n = c + 1 /\ limiter.pc = "idle") =>
                 limiter.tokens = 0 /\ limiter.last_refill = limiter.clock

\* a bucket of capacity 2 after its third acquire, which returned late
C14_Witness ==
    /\ limiter.pc = "idle" /\ limiter.still
    /\ limiter.max_tokens = 2 /\ Len(limiter.log) = 3
    /\ limiter.log[3].slept * limiter.refill_rate > TicksPerSecond

(***************************************************************************)
(* Circuit breaker: reliability.py                                         *)
(***************************************************************************)
\* largest failure_threshold
MaxThreshold == 3
\* largest recovery_timeout_s, in ticks of the clock
MaxTimeout == 2
\* number of record_failure calls explored between two successes
MaxFailureCount == 4

\* CircuitBreaker(failure_threshold, recovery_timeout_s); last_failure_time
\* -1 stands for None; streak counts the record_failure calls made since the
\* creation or the last record_success; last is the call made last, with
\* its result, or for record_success the failure_count it found
NewBreaker(failure_threshold, recovery_timeout_s) ==
    [failure_count |-> 0, failure_threshold |-> failure_threshold,
     recovery_timeout |-> recovery_timeout_s, last_failure_time |-> -1,
     is_open |-> FALSE, clock |-> 0, streak |-> 0, last |-> [op |-> "init"]]

RecordSuccessKeepCount(b) == [b EXCEPT !.is_open = FALSE]

RecordSuccess(b) == [b EXCEPT !.failure_count = 0, !.is_open = FALSE]

RecordFailureEarly(b) ==
    [b EXCEPT !.failure_count = @ + 1, !.last_failure_time = b.clock, !.is_open = TRUE]

RecordFailure(b) ==
    LET n == b.failure_count + 1
    IN  [b EXCEPT !.failure_count = n, !.last_failure_time = b.clock,
                  !.is_open = IF n >= b.failure_threshold THEN TRUE ELSE @]

IsAvailableStrict(b) ==
    \/ ~b.is_open
    \/ b.last_failure_time = -1
    \/ b.clock - b.last_failure_time > b.recovery_timeout

IsAvailable(b) ==
    IF ~b.is_open THEN TRUE
    ELSE IF b.last_failure_time = -1 THEN TRUE
    ELSE b.clock - b.last_failure_time >= b.recovery_timeout

GetState(b) ==
    IF ~b.is_open THEN "closed"
    ELSE IF IsAvailable(b) THEN "half-open"
    ELSE "open"

InitBreaker ==
    /\ BusFresh /\ CtlFresh /\ cfg = BareConfig
    /\ retry = Unused /\ limiter = Unused /\ provider = Unused
    /\ store = Unused /\ replay = Unused
    /\ breaker \in {NewBreaker(th, rt) : th \in 1..MaxThreshold, rt \in 0..MaxTimeout}

BrkRecordSuccess ==
    /\ breaker' = [RecordSuccess(breaker) EXCEPT !.streak = 0,
                                                 !.last = [op |-> "record_success",
                                                           had |-> breaker.failure_count]]
    /\ UNCHANGED <<busVars, ctlVars, store, replay, retry, limiter, provider>>

BrkRecordFailure ==
    /\ breaker.streak < MaxFailureCount
    /\ breaker' = [RecordFailure(breaker) EXCEPT !.streak = @ + 1,
                                                 !.last = [op |-> "record_failure"]]
    /\ UNCHANGED <<busVars, ctlVars, store, replay, retry, limiter, provider>>

BrkIsAvailable ==
    /\ breaker' = [breaker EXCEPT !.last = [op |-> "is_available",
                                            result |-> IsAvailable(breaker)]]
    /\ UNCHANGED <<busVars, ctlVars, store, replay, retry, limiter, provider>>

BrkGetState ==
    /\ breaker' = [breaker EXCEPT !.last = [op |-> "get_state",
                                            result |-> GetState(breaker)]]
    /\ UNCHANGED <<busVars, ctlVars, store, replay, retry, limiter, provider>>

\* time passes
BrkTick ==
    /\ breaker.clock < MaxClock
    /\ breaker' = [breaker EXCEPT !.clock = @ + 1, !.last = [op |-> "tick"]]
    /\ UNCHANGED <<busVars, ctlVars, store, replay, retry, limiter, provider>>

NextBreaker ==
    \/ BrkRecordSuccess
    \/ BrkRecordFailure
    \/ BrkIsAvailable
    \/ BrkGetState
    \/ BrkTick

SpecBreaker == InitBreaker /\ [][NextBreaker]_vars

\* C15: a fresh breaker is closed and available; after fewer than threshold
\* consecutive failures it is still closed and available; after threshold
\* consecutive failures it is open and unavailable until recovery_timeout has
\* passed since the last failure, and from then on half-open and available
\* with failure_count unchanged; after a record_success it is closed with
\* failure_count = 0.
C15_BreakerLifeCycle ==
    breaker # Unused =>
        LET elapsed == breaker.clock - breaker.last_failure_time
        IN  /\ breaker.streak < breaker.failure_threshold =>
                 GetState(breaker) = "closed" /\ IsAvailable(breaker)
            /\ (breaker.streak >= breaker.failure_threshold
                  /\ elapsed < breaker.recovery_timeout) =>
                 GetState(breaker) = "open" /\ ~IsAvailable(breaker)
            /\ (breaker.streak >= breaker.failure_threshold
                  /\ elapsed >= breaker.recovery_timeout) =>
                 /\ GetState(breaker) = "half-open" /\ IsAvailable(breaker)
                 /\ breaker.failure_count = breaker.streak
            /\ breaker.last.op = "record_success" =>
                 GetState(breaker) = "closed" /\ breaker.failure_count = 0

\* get_state answers half-open exactly recovery_timeout after the failure
\* that opened the breaker
C15_Witness ==
    /\ breaker # Unused
    /\ breaker.last.op = "get_state" /\ breaker.last.result = "half-open"
    /\ breaker.streak = breaker.failure_threshold /\ breaker.failure_threshold = 2
    /\ breaker.recovery_timeout = 2
    /\ breaker.clock - breaker.last_failure_time = 2

\* C16: in every state reached by record_failure, record_success,
\* is_available, get_state and the passing of time, a breaker with
\* threshold >= 1 that has is_open = true has failure_count >= threshold.
C16_OpenImpliesThreshold ==
    (breaker # Unused /\ breaker.failure_threshold >= 1 /\ breaker.is_open) =>
        breaker.failure_count >= breaker.failure_threshold

\* an open breaker whose count has passed the threshold
C16_Witness ==
    /\ breaker # Unused /\ breaker.is_open
    /\ breaker.failure_threshold = 2 /\ breaker.failure_count = 3
    /\ breaker.last.op = "record_failure"

\* C17: the passing of time, is_available and get_state leave failure_count,
\* is_open and last_failure_time unchanged, record_failure never decreases
\* failure_count nor clears is_open, and only record_success sets
\* failure_count to 0 or is_open to false: the breaker is open only after
\* threshold failures made since the creation or the last record_success.
C17_OnlySuccessResets ==
    /\ [][/\ breaker'.last.op \in {"tick", "is_available", "get_state"} =>
                /\ breaker'.failure_count = breaker.failure_count
                /\ breaker'.is_open = breaker.is_open
                /\ breaker'.last_failure_time = breaker.last_failure_time
          /\ breaker'.last.op = "record_failure" =>
                /\ breaker'.failure_count >= breaker.failure_count
                /\ breaker.is_open => breaker'.is_open
          /\ ((breaker'.failure_count = 0 /\ breaker.failure_count # 0)
                \/ (~breaker'.is_open /\ breaker.is_open)) =>
                breaker'.last.op = "record_success"]_vars
    /\ [](breaker.is_open => breaker.streak >= breaker.failure_threshold)

\* record_success restarts the count one failure short of the threshold
C17_Witness ==
    /\ breaker # Unused
    /\ breaker.last.op = "record_success" /\ breaker.last.had = 2
    /\ breaker.failure_threshold = 3
    /\ breaker.failure_count = 0 /\ ~breaker.is_open

(***************************************************************************)
(* One Binance provider driven by a single caller: providers/binance.py    *)
(* and the subscribe / unsubscribe entry points of controller.py           *)
(***************************************************************************)
\* longest list of subscriptions given to one subscribe or unsubscribe call
MaxArgLen == 2
\* longest state["subscriptions"] explored
MaxSubList == 3
\* calls the caller makes on the provider
MaxProvCalls == 3

DataTypes == {"trade", "candle", "tick", "orderbook_snapshot", "orderbook_delta"}

\* the subscription configurations the caller uses: one symbol, one data type
SubMenu == {[symbol |-> "BTC/USDT", data_types |-> <<dt>>] : dt \in DataTypes}

\* the lists of subscriptions given to a call: distinct subscriptions
SubArgs ==
    {a \in UNION {[1..n -> SubMenu] : n \in 1..MaxArgLen} :
        \A i, j \in 1..Len(a) : a[i] = a[j] => i = j}

\* subscribe_binance: the stream names built from the subscriptions
SubscribeStreams(subs) ==
    UNION {{<<subs[i].symbol, subs[i].data_types[j]>> :
              j \in {j \in 1..Len(subs[i].data_types) : subs[i].data_types[j] \in DataTypes}} :
           i \in 1..Len(subs)}

\* unsubscribe_binance: stream names are built for trade and candle only
UnsubscribeStreams(subs) ==
    UNION {{<<subs[i].symbol, subs[i].data_types[j]>> :
              j \in {j \in 1..Len(subs[i].data_types) :
                       subs[i].data_types[j] \in {"trade", "candle"}}} :
           i \in 1..Len(subs)}

\* subscribe_binance(state, subscriptions); ok: send_json returns
SubscribeBinance(p, subs, ok) ==
    IF SubscribeStreams(subs) # {} /\ p.ws
    THEN IF ok THEN [p |-> [p EXCEPT !.subs = @ \o subs], raised |-> FALSE, sent |-> TRUE]
         ELSE [p |-> p, raised |-> TRUE, sent |-> FALSE]
    ELSE [p |-> p, raised |-> FALSE, sent |-> FALSE]

\* for sub in subscriptions: if sub in state["subscriptions"]: remove(sub)
RECURSIVE RemoveSubs(_, _)
RemoveSubs(list, subs) ==
    IF subs = <<>> THEN list ELSE RemoveSubs(RemoveFirst(list, Head(subs)), Tail(subs))

\* unsubscribe_binance(state, subscriptions); ok: send_json returns
UnsubscribeBinance(p, subs, ok) ==
    IF UnsubscribeStreams(subs) # {} /\ p.ws
    THEN IF ok THEN [p |-> [p EXCEPT !.subs = RemoveSubs(@, subs)], raised |-> FALSE, sent |-> TRUE]
         ELSE [p |-> p, raised |-> TRUE, sent |-> FALSE]
    ELSE [p |-> p, raised |-> FALSE, sent |-> FALSE]

\* disconnect_binance(state); ok: the close of the WebSocket returns
DisconnectBinance(p, ok) ==
    LET p1 == IF DiscStage(p, 1) = "ping" THEN DiscStep(p, 1) ELSE p
    IN  IF DiscStage(p1, 2) = "ws"
        THEN IF ok THEN [p |-> DiscEnd(DiscStep(p1, 2)), raised |-> FALSE]
             ELSE [p |-> p1, raised |-> TRUE]
        ELSE [p |-> DiscEnd(p1), raised |-> FALSE]

\* do_reconnect of reconnect_binance; outcome: "ok", or the await that
\* raises: "connect" (ws_connect) or "send" (send_json of the resubscribe)
DoReconnectNoResubscribe(p, old, outcome) ==
    IF outcome = "connect"
    THEN [p |-> ConnectFail(BeginConnect(p)), raised |-> TRUE]
    ELSE [p |-> ConnectOk(BeginConnect(p)), raised |-> FALSE]

DoReconnect(p, old, outcome) ==
    IF outcome = "connect"
    THEN [p |-> ConnectFail(BeginConnect(p)), raised |-> TRUE]
    ELSE LET q == ConnectOk(BeginConnect(p))
         IN  IF old # <<>>
             THEN LET r == SubscribeBinance(q, old, outcome = "ok")
                  IN  [p |-> r.p, raised |-> r.raised]
             ELSE [p |-> q, raised |-> FALSE]

\* with_exponential_backoff(do_reconnect, max_attempts): the attempts from
\* number attempt on, plan[attempt + 1] being the outcome of that attempt
RECURSIVE RetryReconnect(_, _, _, _, _)
RetryReconnect(p, old, plan, attempt, max_attempts) ==
    IF attempt >= max_attempts THEN [p |-> p, raised |-> TRUE]
    ELSE LET r == DoReconnect(p, old, plan[attempt + 1])
         IN  IF ~r.raised THEN r
             ELSE RetryReconnect(r.p, old, plan, attempt + 1, max_attempts)

\* reconnect_binance(state); ok: the close of the WebSocket returns
ReconnectBinance(p, ok, plan) ==
    LET old == p.subs
        d == DisconnectBinance(p, ok)
    IN  IF d.raised THEN d
        ELSE RetryReconnect([d.p EXCEPT !.reconnect_count = @ + 1], old, plan, 0, Len(plan))

InitProvider ==
    /\ BusFresh /\ CtlFresh /\ cfg = BareConfig
    /\ retry = Unused /\ limiter = Unused /\ breaker = Unused
    /\ store = Unused /\ replay = Unused
    /\ provider = [p |-> CreateProvider, calls |-> 0, last |-> [op |-> "create"]]

\* get_binance_health(state): the fields of the snapshot the model holds
GetBinanceHealth(p) ==
    [status |-> p.status, reconnect_count |-> p.reconnect_count,
     subscription_count |-> Len(p.subs)]

\* the provider after the call op(arg) of the caller ended with result r;
\* old and old_count are the subscriptions and the reported reconnect_count
\* at the time of the call
Called(op, arg, r) ==
    [p |-> r.p, calls |-> provider.calls + 1,
     last |-> [op |-> op, arg |-> arg, old |-> provider.p.subs,
               old_count |-> GetBinanceHealth(provider.p).reconnect_count,
               outcome |-> IF r.raised THEN "raised" ELSE "returned"]]

\* connect_binance(state); ok: ws_connect returns
PvConnect(ok) ==
    /\ provider.calls < MaxProvCalls
    /\ provider' = Called("connect", <<>>,
                          IF ok
                          THEN [p |-> ConnectOk(BeginConnect(provider.p)), raised |-> FALSE]
                          ELSE [p |-> ConnectFail(BeginConnect(provider.p)), raised |-> TRUE])
    /\ UNCHANGED <<busVars, ctlVars, store, replay, retry, limiter, breaker>>

\* connect_binance(state) is cancelled while ws_connect is pending: the
\* CancelledError is not an Exception, so the except branch does not run
PvConnectCancelled ==
    /\ provider.calls < MaxProvCalls
    /\ provider' = [Called("connect", <<>>, [p |-> BeginConnect(provider.p), raised |-> TRUE])
                      EXCEPT !.last.outcome = "cancelled"]
    /\ UNCHANGED <<busVars, ctlVars, store, replay, retry, limiter, breaker>>

PvDisconnect(ok) ==
    /\ provider.calls < MaxProvCalls
    /\ provider' = Called("disconnect", <<>>, DisconnectBinance(provider.p, ok))
    /\ UNCHANGED <<busVars, ctlVars, store, replay, retry, limiter, breaker>>

\* subscribe(state, provider_name, subscriptions) of the controller
PvSubscribe(subs, ok) ==
    /\ provider.calls < MaxProvCalls
    /\ Len(provider.p.subs) + Len(subs) <= MaxSubList
    /\ provider' = Called("subscribe", subs, SubscribeBinance(provider.p, subs, ok))
    /\ UNCHANGED <<busVars, ctlVars, store, replay, retry, limiter, breaker>>

\* unsubscribe(state, provider_name, subscriptions) of the controller
PvUnsubscribe(subs, ok) ==
    /\ provider.calls < MaxProvCalls
    /\ provider' = Called("unsubscribe", subs, UnsubscribeBinance(provider.p, subs, ok))
    /\ UNCHANGED <<busVars, ctlVars, store, replay, retry, limiter, breaker>>

PvReconnect(ok, plan) ==
    /\ provider.calls < MaxProvCalls
    /\ provider' = Called("reconnect", plan, ReconnectBinance(provider.p, ok, plan))
    /\ UNCHANGED <<busVars, ctlVars, store, replay, retry, limiter, breaker>>

NextProvider ==
    \/ \E ok \in BOOLEAN : PvConnect(ok)
    \/ PvConnectCancelled
    \/ \E ok \in BOOLEAN : PvDisconnect(ok)
    \/ \E subs \in SubArgs, ok \in BOOLEAN : PvSubscribe(subs, ok)
    \/ \E subs \in SubArgs, ok \in BOOLEAN : PvUnsubscribe(subs, ok)
    \/ \E ok \in BOOLEAN, plan \in [1..MaxAttempts -> {"ok", "connect", "send"}] :
          PvReconnect(ok, plan)

SpecProvider == InitProvider /\ [][NextProvider]_vars

\* C18: when subscribe(subs) returns normally every subscription of subs is
\* in the provider's subscriptions, and when unsubscribe(subs) returns
\* normally none is, for every data type and with or without a connection.
C18_MembershipMatchesIntent ==
    /\ (provider.last.op = "subscribe" /\ provider.last.outcome = "returned") =>
          Range(provider.last.arg) \subseteq Range(provider.p.subs)
    /\ (provider.last.op = "unsubscribe" /\ provider.last.outcome = "returned") =>
          Range(provider.last.arg) \cap Range(provider.p.subs) = {}

\* C19: subscribing again to an active subscription is a no-op: the
\* provider's subscriptions contain a subscription at most once, so that one
\* unsubscribe that was sent leaves it no longer active.
C19_ResubscribeIsNoOp ==
    /\ \A s \in SubMenu :
          Cardinality({i \in 1..Len(provider.p.subs) : provider.p.subs[i] = s}) <= 1
    /\ (provider.last.op = "unsubscribe" /\ provider.last.outcome = "returned"
          /\ provider.p.ws
          /\ \A i \in 1..Len(provider.last.arg) :
                provider.last.arg[i].data_types[1] \in {"trade", "candle"}) =>
          Range(provider.last.arg) \cap Range(provider.p.subs) = {}

\* C20: when reconnect returns normally, after any number of failed attempts
\* in connect or in the resubscribe, the provider's subscriptions are as a
\* set the ones it had when reconnect was called and its status is connected.
C20_ReconnectRestoresSubscriptions ==
    (provider.last.op = "reconnect" /\ provider.last.outcome = "returned") =>
        /\ Range(provider.p.subs) = Range(provider.last.old)
        /\ provider.p.status = "connected"

\* a reconnect that restored two subscriptions on its second attempt, the
\* first attempt having failed in the resubscribe
C20_Witness ==
    /\ provider.last.op = "reconnect" /\ provider.last.outcome = "returned"
    /\ provider.last.arg = <<"send", "ok">>
    /\ Cardinality(Range(provider.last.old)) = 2
    /\ Range(provider.p.subs) = Range(provider.last.old)

(***************************************************************************)
(* Storage buffer driven on its own: storage.py                            *)
(*                                                                         *)
(* Records are numbered in the order buffer_record accepts them.  A call   *)
(* of flush_buffer is a record [pc, batch, i]: "new" before it has run,    *)
(* "write" while it awaits batch_write(records) or write(records[i]).      *)
(***************************************************************************)
\* number of records given to buffer_record
MaxRecords == 3
\* number of write calls that raise
MaxStoreFaults == 2

\* create_storage_buffer(config) with enabled = true and the writer mode
\* ("batch_write" or "write") of the configuration
CreateStore(mode) ==
    [mode |-> mode, buffer |-> <<>>, write_count |-> 0, error_count |-> 0,
     running |-> FALSE,
     loop |-> [pc |-> "none", batch |-> <<>>, i |-> 0, cancel |-> FALSE],
     tasks |-> <<>>, stop |-> [pc |-> "none", batch |-> <<>>, i |-> 0],
     next |-> 1, written |-> {}, faults |-> 0, last |-> [op |-> "create"]]

\* flush_buffer, "except Exception": count the error, put the batch back
FlushFailedDropping(st, records) == [st EXCEPT !.error_count = @ + 1]

FlushFailed(st, records) ==
    [st EXCEPT !.error_count = @ + 1, !.buffer = @ \o records]

\* flush_buffer called by who ("task", "loop", "stop"): the step of the call
\* f up to its next await or its return; ok: the awaited write returns
FlushBuffer(st, who, f, ok) ==
    IF f.pc = "new"
    THEN IF st.buffer = <<>>
         THEN [st |-> [st EXCEPT !.last = [op |-> "flush"]], f |-> [f EXCEPT !.pc = "done"]]
         ELSE [st |-> [st EXCEPT !.buffer = <<>>, !.last = [op |-> "flush"]],
               f |-> [f EXCEPT !.pc = "write", !.batch = st.buffer, !.i = 1]]
    ELSE IF ~ok
    THEN [st |-> [FlushFailed(st, f.batch) EXCEPT
                     !.faults = @ + 1,
                     !.last = [op |-> "flush_failed", who |-> who, batch |-> f.batch,
                               errors |-> st.error_count]],
          f |-> [f EXCEPT !.pc = "done", !.batch = <<>>]]
    ELSE IF st.mode = "batch_write"
    THEN [st |-> [st EXCEPT !.written = @ \cup Range(f.batch),
                            !.write_count = @ + Len(f.batch),
                            !.last = [op |-> "flush"]],
          f |-> [f EXCEPT !.pc = "done", !.batch = <<>>]]
    ELSE [st |-> [st EXCEPT !.written = @ \cup {f.batch[f.i]},
                            !.write_count = @ + 1,
                            !.last = [op |-> "flush"]],
          f |-> IF f.i = Len(f.batch)
                THEN [f EXCEPT !.pc = "done", !.batch = <<>>]
                ELSE [f EXCEPT !.i = @ + 1]]

InitStorage ==
    /\ BusFresh /\ CtlFresh /\ cfg = BareConfig
    /\ retry = Unused /\ limiter = Unused /\ breaker = Unused /\ provider = Unused
    /\ replay = Unused
    /\ store \in {CreateStore(mode) : mode \in {"batch_write", "write"}}

\* buffer_record(state, record): append, and at batch_size create the task
\* asyncio.create_task(flush_buffer(state))
StBufferRecord ==
    /\ store.next <= MaxRecords
    /\ LET buf == Append(store.buffer, store.next)
       IN  store' = [store EXCEPT
                        !.buffer = buf, !.next = @ + 1,
                        !.tasks = IF Len(buf) >= BatchSize
                                  THEN Append(@, [pc |-> "new", batch |-> <<>>, i |-> 0])
                                  ELSE @,
                        !.last = [op |-> "buffer_record"]]
    /\ UNCHANGED <<busVars, ctlVars, retry, limiter, breaker, provider, replay>>

\* a task created by buffer_record runs flush_buffer
StTaskStep(k, ok) ==
    /\ k \in 1..Len(store.tasks)
    /\ store.tasks[k].pc = "new" => ok
    /\ ok \/ store.faults < MaxStoreFaults
    /\ LET r == FlushBuffer(store, "task", store.tasks[k], ok)
       IN  store' = [r.st EXCEPT
                        !.tasks = IF r.f.pc = "done"
                                  THEN SubSeq(@, 1, k - 1) \o SubSeq(@, k + 1, Len(@))
                                  ELSE [@ EXCEPT ![k] = r.f]]
    /\ UNCHANGED <<busVars, ctlVars, retry, limiter, breaker, provider, replay>>

\* start_storage_buffer: the task of _flush_loop, which begins with its sleep
StStart ==
    /\ store.loop.pc = "none" /\ store.stop.pc = "none"
    /\ store' = [store EXCEPT !.running = TRUE, !.loop.pc = "sleep",
                              !.last = [op |-> "start"]]
    /\ UNCHANGED <<busVars, ctlVars, retry, limiter, breaker, provider, replay>>

\* _flush_loop: the sleep returns and flush_buffer runs, or its write
\* returns or raises; after flush_buffer the loop tests state["running"]
StLoopStep(ok) ==
    /\ store.loop.pc \in {"sleep", "write"} /\ ~store.loop.cancel
    /\ store.loop.pc = "sleep" => ok
    /\ ok \/ store.faults < MaxStoreFaults
    /\ LET f == IF store.loop.pc = "sleep" THEN [store.loop EXCEPT !.pc = "new"]
                ELSE store.loop
           r == FlushBuffer(store, "loop", f, ok)
       IN  store' = [r.st EXCEPT
                        !.loop = IF r.f.pc = "done"
                                 THEN [r.f EXCEPT !.pc = IF r.st.running THEN "sleep"
                                                         ELSE "ended"]
                                 ELSE r.f]
    /\ UNCHANGED <<busVars, ctlVars, retry, limiter, breaker, provider, replay>>

\* _flush_loop, "except asyncio.CancelledError: break": the cancellation
\* requested by stop_storage_buffer is raised at the await the loop is
\* suspended at, the sleep or the write inside flush_buffer
StLoopCancelled ==
    /\ store.loop.cancel
    /\ store' = [store EXCEPT !.loop = [pc |-> "ended", batch |-> <<>>, i |-> 0,
                                        cancel |-> FALSE],
                              !.last = [op |-> "loop_cancelled"]]
    /\ UNCHANGED <<busVars, ctlVars, retry, limiter, breaker, provider, replay>>

\* stop_storage_buffer up to its first await: the flush task, or without
\* one the write of the final flush
StStop ==
    /\ store.stop.pc = "none"
    /\ LET st == [store EXCEPT !.running = FALSE]
       IN  IF store.loop.pc # "none"
           THEN store' = [st EXCEPT !.loop.cancel = (store.loop.pc # "ended"),
                                    !.stop.pc = "wait_loop",
                                    !.last = [op |-> "stop"]]
           ELSE LET r == FlushBuffer(st, "stop", [store.stop EXCEPT !.pc = "new"], TRUE)
                IN  store' = [r.st EXCEPT
                                 !.stop = IF r.f.pc = "done"
                                          THEN [r.f EXCEPT !.pc = "returned"] ELSE r.f]
    /\ UNCHANGED <<busVars, ctlVars, retry, limiter, breaker, provider, replay>>

\* stop_storage_buffer resumes: the flush task has ended and the final flush
\* runs, or the write of the final flush returns or raises
StStopStep(ok) ==
    /\ \/ store.stop.pc = "wait_loop" /\ store.loop.pc = "ended" /\ ok
       \/ store.stop.pc = "write"
    /\ ok \/ store.faults < MaxStoreFaults
    /\ LET f == IF store.stop.pc = "wait_loop" THEN [store.stop EXCEPT !.pc = "new"]
                ELSE store.stop
           r == FlushBuffer(store, "stop", f, ok)
       IN  store' = [r.st EXCEPT
                        !.stop = IF r.f.pc = "done"
                                 THEN [r.f EXCEPT !.pc = "returned"] ELSE r.f]
    /\ UNCHANGED <<busVars, ctlVars, retry, limiter, breaker, provider, replay>>

NextStorage ==
    \/ StBufferRecord
    \/ \E k \in 1..MaxRecords, ok \in BOOLEAN : StTaskStep(k, ok)
    \/ StStart
    \/ \E ok \in BOOLEAN : StLoopStep(ok)
    \/ StLoopCancelled
    \/ StStop
    \/ \E ok \in BOOLEAN : StStopStep(ok)

SpecStorage == InitStorage /\ [][NextStorage]_vars

\* C21: after a reconnect that returned normally the reconnect_count of the
\* health snapshot is exactly one greater than it was before.
C21_OneReconnectIncrement ==
    (provider.last.op = "reconnect" /\ provider.last.outcome = "returned") =>
        GetBinanceHealth(provider.p).reconnect_count = provider.last.old_count + 1

\* C22: connect leaves status connected when it returns and status error
\* when it raises, and in no outcome, cancellation of the pending connection
\* attempt included, is the status still connecting after connect has ended.
C22_ConnectNeverLeavesConnecting ==
    provider.last.op = "connect" =>
        /\ provider.last.outcome = "returned" => provider.p.status = "connected"
        /\ provider.last.outcome = "raised" => provider.p.status = "error"
        /\ provider.p.status # "connecting"

\* C23: while the controller is running, the message iteration of a task
\* that was not cancelled never ends silently: when it ends (the stream
\* failed, was closed by the peer, or there is no connection) it raises, so
\* that the task enters the reconnect path.
C23_IterationNeverEndsSilently ==
    [][\A t \in TaskIds :
          (/\ task[t].pc \in {"new", "iter"} /\ ~task[t].cancel /\ running
           /\ task'[t].pc \notin {"new", "iter"}) =>
              task'[t].pc \in ReconnectPcs]_vars

\* C24: when a write raises during flush_buffer, every record of the batch
\* that flush took is in the buffer again when flush_buffer returns,
\* error_count has grown by exactly one, and the caller goes on as after a
\* flush that succeeded: the periodic loop sleeps again, stop returns.
C24_FailedFlushReenqueues ==
    (store # Unused /\ store.last.op = "flush_failed") =>
        /\ Range(store.last.batch) \subseteq Range(store.buffer)
        /\ store.error_count = store.last.errors + 1
        /\ store.last.who = "loop" => store.loop.pc = "sleep"
        /\ store.last.who = "stop" => store.stop.pc = "returned"

\* a per-record flush of two records whose second write raised
C24_Witness ==
    /\ store # Unused /\ store.last.op = "flush_failed"
    /\ store.mode = "write" /\ Len(store.last.batch) = 2
    /\ store.last.batch[1] \in store.written
    /\ store.last.batch[2] \notin store.written

\* C25: every record accepted by buffer_record is at every moment in the
\* buffer, in the batch of a flush that is in progress, or has been passed
\* to a write that succeeded.
C25_AtLeastOnce ==
    store # Unused =>
        \A r \in 1..(store.next - 1) :
            \/ r \in Range(store.buffer)
            \/ r \in store.written
            \/ r \in Range(store.loop.batch)
            \/ r \in Range(store.stop.batch)
            \/ \E k \in 1..Len(store.tasks) : r \in Range(store.tasks[k].batch)

(***************************************************************************)
(* The provider registry of the controller: controller.py                  *)
(*                                                                         *)
(* A provider name is a sequence of pieces, so that startswith is          *)
(* computed; the registry prov maps the registered names to provider       *)
(* states.  One caller makes one call at a time, and no message arrives.   *)
(***************************************************************************)
\* number of provider configurations given to create_controller
MaxConfigs == 2

ProviderNames == {<<"binance">>, <<"binance", "_us">>, <<"kraken">>, <<"my_", "binance">>}

\* name == "binance" or name.startswith("binance")
IsBinance(name) ==
    \/ name = <<"binance">>
    \/ Len(name) >= 1 /\ SubSeq(name, 1, 1) = <<"binance">>

\* create_controller: the loop over provider_configs that fills providers
RECURSIVE CreateProviders(_, _)
CreateProviders(configs, providers) ==
    IF configs = <<>> THEN providers
    ELSE CreateProviders(Tail(configs),
                         IF IsBinance(Head(configs))
                         THEN (Head(configs) :> CreateProvider) @@ providers
                         ELSE providers)

\* faulty variant of ProviderState: an unknown name falls back to a
\* registered provider
ProviderStateAny(providers, name) ==
    IF name \in DOMAIN providers THEN <<name>>
    ELSE IF DOMAIN providers # {} THEN <<CHOOSE n \in DOMAIN providers : TRUE>>
    ELSE <<>>

\* state["providers"].get(provider_name): the entry found, or none
ProviderState(providers, name) ==
    IF name \in DOMAIN providers THEN <<name>> ELSE <<>>

InitRegistry ==
    /\ BusFresh /\ RelUnused
    /\ \E names \in UNION {[1..n -> ProviderNames] : n \in 0..MaxConfigs},
          withStorage \in BOOLEAN :
          /\ cfg = [providers |-> names, storage |-> withStorage]
          /\ prov = CreateProviders(names, <<>>)
    /\ running = FALSE
    /\ tasks = <<>>
    /\ task = [t \in TaskIds |-> FreeTask]
    /\ storage = CreateStorage
    /\ app = IdleApp
    /\ env = [faults |-> 0, calls |-> 0, yielded |-> 0]

\* what the caller of a controller operation sees, with the state before it
Returned(op, name, raised, provider_ops) ==
    [op |-> op, name |-> name, raised |-> raised, provider_ops |-> provider_ops,
     before |-> <<prov, running, tasks, storage>>]

\* start_controller, connect_binance returning for the providers in oks and
\* raising for the others
RegStart(oks) ==
    /\ ~running
    /\ oks \subseteq DOMAIN prov
    /\ running' = TRUE
    /\ storage' = StartStorageBuffer(cfg, storage)
    /\ prov' = [n \in DOMAIN prov |->
                   IF n \in oks THEN ConnectOk(BeginConnect(prov[n]))
                   ELSE ConnectFail(BeginConnect(prov[n]))]
    /\ tasks' = SelectSeq(cfg.providers, LAMBDA n : n \in oks)
    /\ lastOp' = Returned("start", <<>>, FALSE, Cardinality(DOMAIN prov))
    /\ Call
    /\ UNCHANGED <<bus, busGhosts, cfg, task, app, relVars>>

\* subscribe(state, provider_name, subscriptions)
RegSubscribe(name, ok) ==
    /\ LET ps == ProviderState(prov, name)
           r == SubscribeBinance(prov[ps[1]],
                                 <<[symbol |-> "BTC/USDT", data_types |-> <<"trade">>]>>, ok)
       IN  IF ps = <<>>
           THEN /\ ok
                /\ lastOp' = Returned("subscribe", name, TRUE, 0)
                /\ UNCHANGED prov
           ELSE /\ ok \/ r.raised
                /\ prov' = [prov EXCEPT ![ps[1]] = r.p]
                /\ lastOp' = Returned("subscribe", name, r.raised, 1)
    /\ Call
    /\ UNCHANGED <<bus, busGhosts, cfg, running, tasks, task, storage, app, relVars>>

\* unsubscribe(state, provider_name, subscriptions)
RegUnsubscribe(name, ok) ==
    /\ LET ps == ProviderState(prov, name)
           r == UnsubscribeBinance(prov[ps[1]],
                                   <<[symbol |-> "BTC/USDT", data_types |-> <<"trade">>]>>, ok)
       IN  IF ps = <<>>
           THEN /\ ok
                /\ lastOp' = Returned("unsubscribe", name, TRUE, 0)
                /\ UNCHANGED prov
           ELSE /\ ok \/ r.raised
                /\ prov' = [prov EXCEPT ![ps[1]] = r.p]
                /\ lastOp' = Returned("unsubscribe", name, r.raised, 1)
    /\ Call
    /\ UNCHANGED <<bus, busGhosts, cfg, running, tasks, task, storage, app, relVars>>

\* fetch_historical(state, provider_name, request) iterated to its first
\* item: the check of the name, then fetch_binance_historical_candles, which
\* raises without an HTTP session or when the request fails (ok false), and
\* otherwise yields a candle that is buffered if a buffer is configured
RegFetchHistorical(name, ok) ==
    /\ LET ps == ProviderState(prov, name)
       IN  IF ps = <<>>
           THEN /\ ok
                /\ lastOp' = Returned("fetch_historical", name, TRUE, 0)
                /\ UNCHANGED storage
           ELSE /\ ok \/ prov[ps[1]].ws
                /\ storage' = IF ok /\ prov[ps[1]].ws /\ cfg.storage
                              THEN BufferRecord(storage) ELSE storage
                /\ lastOp' = Returned("fetch_historical", name,
                                      ~(ok /\ prov[ps[1]].ws), 1)
    /\ Call
    /\ UNCHANGED <<bus, busGhosts, cfg, running, tasks, task, prov, app, relVars>>

\* fetch_orderbook_snapshot(state, provider_name, symbol, limit)
RegFetchOrderbookSnapshot(name, ok) ==
    /\ LET ps == ProviderState(prov, name)
       IN  IF ps = <<>>
           THEN /\ ok
                /\ lastOp' = Returned("fetch_orderbook_snapshot", name, TRUE, 0)
           ELSE /\ ok \/ prov[ps[1]].ws
                /\ lastOp' = Returned("fetch_orderbook_snapshot", name,
                                      ~(ok /\ prov[ps[1]].ws), 1)
    /\ Call
    /\ UNCHANGED <<bus, busGhosts, cfg, running, tasks, task, prov, storage, app, relVars>>

NextRegistry ==
    \/ \E oks \in SUBSET ProviderNames : RegStart(oks)
    \/ \E name \in ProviderNames, ok \in BOOLEAN : RegSubscribe(name, ok)
    \/ \E name \in ProviderNames, ok \in BOOLEAN : RegUnsubscribe(name, ok)
    \/ \E name \in ProviderNames, ok \in BOOLEAN : RegFetchHistorical(name, ok)
    \/ \E name \in ProviderNames, ok \in BOOLEAN : RegFetchOrderbookSnapshot(name, ok)

SpecRegistry == InitRegistry /\ [][NextRegistry]_vars

\* C26: subscribe, unsubscribe, fetch_historical and fetch_orderbook_snapshot
\* with a name that is not in the registry raise, call no provider operation
\* and leave providers, running flag, tasks and storage buffer as they were;
\* the registry built at construction holds exactly the configured names that
\* begin with "binance", whatever other names were configured.
C26_UnknownProviderRaises ==
    /\ (/\ "name" \in DOMAIN lastOp
        /\ lastOp.op \in {"subscribe", "unsubscribe", "fetch_historical",
                          "fetch_orderbook_snapshot"}
        /\ lastOp.name \notin DOMAIN lastOp.before[1]) =>
            /\ lastOp.raised
            /\ lastOp.provider_ops = 0
            /\ <<prov, running, tasks, storage>> = lastOp.before
    /\ "providers" \in DOMAIN cfg =>
            DOMAIN prov = {n \in Range(cfg.providers) : Head(n) = "binance"}

\* a started controller with a connected provider, configured with a name
\* that is not recognised, is asked for that name's history
C26_Witness ==
    /\ "name" \in DOMAIN lastOp /\ "providers" \in DOMAIN cfg
    /\ lastOp.op = "fetch_historical" /\ lastOp.name = <<"kraken">>
    /\ <<"kraken">> \in Range(cfg.providers)
    /\ running /\ \E n \in DOMAIN prov : prov[n].ws

(***************************************************************************)
(* Recorder and players: replay.py                                         *)
(*                                                                         *)
(* Lists are objects: replay.lists[1] is the list state["records"] of the  *)
(* recorder, every copy handed out is a further entry, and replay.returned *)
(* remembers which list each stop_recording returned and what it held.     *)
(* A payload is [py, v]: the Python type of the value and its content; a   *)
(* line of a file is the JSON text of a record.  An optional int is <<>>   *)
(* (None) or <<n>>.  One caller makes one call at a time.                  *)
(***************************************************************************)
\* number of calls of the recorder and the players
MaxReplayCalls == 6

\* the events given to record_event
EventMenu ==
    {[type |-> "trade", timestamp_ms |-> 1000, data |-> [py |-> "int", v |-> 100]],
     [type |-> "candle", timestamp_ms |-> 4000, data |-> [py |-> "int", v |-> 102]],
     [type |-> "tick", timestamp_ms |-> 2000, data |-> [py |-> "tuple", v |-> 7]]}

\* the arguments given to a player
PlayerMenu ==
    [handlers : {DataTypes, {"trade"}}, raising : {{}, {"trade"}}, speed : {0, 2},
     start : {<<>>, <<0>>, <<2000>>}, end : {<<>>, <<0>>, <<2000>>}]

\* json.dumps(record): a tuple is written as an array
JsonDumps(record) ==
    [type |-> record.type, timestamp_ms |-> record.timestamp_ms,
     data |-> [json |-> IF record.data.py \in {"tuple", "list"} THEN "array" ELSE "number",
               v |-> record.data.v]]

\* json.loads(line): an array is read as a list
JsonLoads(line) ==
    [type |-> line.type, timestamp_ms |-> line.timestamp_ms,
     data |-> [py |-> IF line.data.json = "array" THEN "list" ELSE "int",
               v |-> line.data.v]]

\* create_replay_recorder()
CreateReplayRecorder ==
    [recording |-> FALSE, lists |-> << <<>> >>, returned |-> <<>>, file |-> <<>>,
     calls |-> 0, last |-> [op |-> "create"]]

\* start_recording(state)
StartRecording(st) == [st EXCEPT !.recording = TRUE, !.lists[1] = <<>>]

\* faulty variant of StopRecording: the list of the recorder itself is returned
StopRecordingAliased(st) ==
    [st EXCEPT !.recording = FALSE,
               !.returned = Append(@, [list |-> 1, value |-> st.lists[1]])]

\* stop_recording(state): state["records"].copy() is a new list
StopRecording(st) ==
    [st EXCEPT !.recording = FALSE,
               !.lists = Append(@, st.lists[1]),
               !.returned = Append(@, [list |-> Len(st.lists) + 1, value |-> st.lists[1]])]

\* record_event(state, event_type, data, timestamp_ms)
RecordEvent(st, e) ==
    IF ~st.recording THEN st ELSE [st EXCEPT !.lists[1] = Append(@, e)]

\* save_recording(state, file_path): one line per record of state["records"]
SaveRecording(st) ==
    [st EXCEPT !.file = << [i \in 1..Len(st.lists[1]) |-> JsonDumps(st.lists[1][i])] >>]

\* the counter a player increments for a type
StatKey(type) ==
    CASE type = "trade" -> "trades"
      [] type = "candle" -> "candles"
      [] type = "tick" -> "ticks"
      [] type = "orderbook_snapshot" -> "orderbook_snapshots"
      [] type = "orderbook_delta" -> "orderbook_deltas"

\* faulty variant of Pace: the delay is slept whatever its sign
PaceUnguarded(acc, timestamp, speed) ==
    LET a1 == IF acc.last # <<>> /\ speed > 0
              THEN [acc EXCEPT !.sleeps = Append(@, <<timestamp - acc.last[1], speed,
                                                      Len(acc.replayed) + 1>>)]
              ELSE acc
    IN  [a1 EXCEPT !.last = <<timestamp>>, !.replayed = Append(@, timestamp)]

\* "Simulate timing": the sleep before a record, written <<ms, speed, i>> for
\* ms / 1000 / speed seconds slept before the i-th record that is replayed,
\* and last_timestamp; replayed lists the timestamps of the records that
\* came this far
Pace(acc, timestamp, speed) ==
    LET a1 == IF acc.last # <<>> /\ speed > 0 /\ timestamp - acc.last[1] > 0
              THEN [acc EXCEPT !.sleeps = Append(@, <<timestamp - acc.last[1], speed,
                                                      Len(acc.replayed) + 1>>)]
              ELSE acc
    IN  [a1 EXCEPT !.last = <<timestamp>>, !.replayed = Append(@, timestamp)]

\* "Route by type": the if/elif chain over the types in branches; the
\* counter first, then the handler if there is one, which may raise
Dispatch(acc, record, p, branches) ==
    IF record.type \notin branches THEN acc
    ELSE LET a1 == [acc EXCEPT !.stats[StatKey(record.type)] = @ + 1]
         IN  IF record.type \in p.handlers
             THEN [a1 EXCEPT !.calls = Append(@, <<record.type, record.data>>),
                             !.raised = record.type \in p.raising]
             ELSE a1

\* "if start_time_ms and ...": None and 0 are both false
Truthy(opt) == opt # <<>> /\ opt[1] # 0

\* replay_from_file: the loop over the lines
RECURSIVE FileLoop(_, _, _)
FileLoop(acc, lines, p) ==
    IF lines = <<>> \/ acc.raised THEN acc
    ELSE LET record == JsonLoads(Head(lines))
             timestamp == record.timestamp_ms
         IN  IF Truthy(p.start) /\ timestamp < p.start[1]
             THEN FileLoop([acc EXCEPT !.stats["skipped"] = @ + 1], Tail(lines), p)
             ELSE IF Truthy(p.end) /\ timestamp > p.end[1]
             THEN acc
             ELSE FileLoop(Dispatch(Pace(acc, timestamp, p.speed), record, p, DataTypes),
                           Tail(lines), p)

\* replay_from_file(file_path, handlers, speed_multiplier, start_time_ms, end_time_ms)
ReplayFromFile(lines, p) ==
    FileLoop([stats |-> [k \in {"trades", "candles", "ticks", "orderbook_snapshots",
                                "orderbook_deltas", "skipped"} |-> 0],
              calls |-> <<>>, sleeps |-> <<>>, last |-> <<>>, raised |-> FALSE,
              yields |-> 0, replayed |-> <<>>], lines, p)

\* replay_from_records: the loop over the records, each ending with sleep(0)
RECURSIVE RecordsLoop(_, _, _)
RecordsLoop(acc, records, p) ==
    IF records = <<>> \/ acc.raised THEN acc
    ELSE LET record == Head(records)
             a1 == [acc EXCEPT !.stats["total"] = @ + 1]
             a2 == Dispatch(Pace(a1, record.timestamp_ms, p.speed), record, p,
                            {"trade", "candle"})
         IN  RecordsLoop(IF a2.raised THEN a2 ELSE [a2 EXCEPT !.yields = @ + 1],
                         Tail(records), p)

\* replay_from_records(records, handlers, speed_multiplier)
ReplayFromRecords(records, p) ==
    RecordsLoop([stats |-> [k \in {"trades", "candles", "total"} |-> 0],
                 calls |-> <<>>, sleeps |-> <<>>, last |-> <<>>, raised |-> FALSE,
                 yields |-> 0, replayed |-> <<>>], records, p)

InitReplay ==
    /\ BusFresh /\ CtlFresh /\ cfg = BareConfig
    /\ retry = Unused /\ limiter = Unused /\ breaker = Unused /\ provider = Unused
    /\ store = Unused
    /\ replay = CreateReplayRecorder

RpStart ==
    /\ replay.calls < MaxReplayCalls
    /\ replay' = [StartRecording(replay) EXCEPT !.calls = @ + 1,
                                                !.last = [op |-> "start_recording"]]
    /\ UNCHANGED <<busVars, ctlVars, retry, limiter, breaker, provider, store>>

RpRecord(e) ==
    /\ replay.calls < MaxReplayCalls
    /\ replay' = [RecordEvent(replay, e) EXCEPT !.calls = @ + 1,
                                                !.last = [op |-> "record_event", event |-> e]]
    /\ UNCHANGED <<busVars, ctlVars, retry, limiter, breaker, provider, store>>

RpStop ==
    /\ replay.calls < MaxReplayCalls
    /\ replay' = [StopRecording(replay) EXCEPT !.calls = @ + 1,
                                               !.last = [op |-> "stop_recording"]]
    /\ UNCHANGED <<busVars, ctlVars, retry, limiter, breaker, provider, store>>

RpSave ==
    /\ replay.calls < MaxReplayCalls
    /\ replay' = [SaveRecording(replay) EXCEPT !.calls = @ + 1,
                                               !.last = [op |-> "save_recording"]]
    /\ UNCHANGED <<busVars, ctlVars, retry, limiter, breaker, provider, store>>

\* the caller replays the file that save_recording wrote
RpReplayFile(p) ==
    /\ replay.calls < MaxReplayCalls
    /\ replay.file # <<>>
    /\ replay' = [replay EXCEPT !.calls = @ + 1,
                                !.last = [op |-> "replay_from_file", p |-> p,
                                          input |-> replay.file[1],
                                          out |-> ReplayFromFile(replay.file[1], p)]]
    /\ UNCHANGED <<busVars, ctlVars, retry, limiter, breaker, provider, store>>

\* the caller replays a list that stop_recording returned
RpReplayRecords(k, p) ==
    /\ replay.calls < MaxReplayCalls
    /\ k \in 1..Len(replay.returned)
    /\ p.start = <<>> /\ p.end = <<>>
    /\ LET records == replay.lists[replay.returned[k].list]
       IN  replay' = [replay EXCEPT !.calls = @ + 1,
                                    !.last = [op |-> "replay_from_records", p |-> p,
                                              input |-> records,
                                              out |-> ReplayFromRecords(records, p)]]
    /\ UNCHANGED <<busVars, ctlVars, retry, limiter, breaker, provider, store>>

NextReplay ==
    \/ RpStart
    \/ \E e \in EventMenu : RpRecord(e)
    \/ RpStop
    \/ RpSave
    \/ \E p \in PlayerMenu : RpReplayFile(p)
    \/ \E k \in 1..MaxReplayCalls, p \in PlayerMenu : RpReplayRecords(k, p)

SpecReplay == InitReplay /\ [][NextReplay]_vars

\* C27: record_event appends its event if recording is set and otherwise
\* leaves the record list as it is; start_recording empties the list and sets
\* recording; stop_recording clears recording and returns a list holding what
\* the record list holds, and no list returned earlier is ever changed by a
\* later call.
C27_RecorderStateMachine ==
    [][/\ replay'.last.op = "record_event" =>
             /\ replay'.lists[1] = IF replay.recording
                                   THEN Append(replay.lists[1], replay'.last.event)
                                   ELSE replay.lists[1]
             /\ replay'.recording = replay.recording
       /\ replay'.last.op = "start_recording" =>
             replay'.lists[1] = <<>> /\ replay'.recording
       /\ replay'.last.op = "stop_recording" =>
             /\ ~replay'.recording
             /\ Len(replay'.returned) = Len(replay.returned) + 1
             /\ replay'.returned[Len(replay'.returned)].value = replay.lists[1]
       /\ \A k \in 1..Len(replay.returned) :
             /\ replay'.returned[k] = replay.returned[k]
             /\ replay'.lists[replay.returned[k].list] = replay.returned[k].value]_vars

\* a list that was returned with records in it, after the recorder was
\* started again and its own list was emptied
C27_Witness ==
    /\ replay # Unused /\ replay.recording
    /\ Len(replay.returned) >= 1 /\ Len(replay.returned[1].value) = 2
    /\ replay.lists[1] = <<>>

\* C28: after (trade, 1000, A) and (candle, 4000, B) were recorded, returned
\* by stop_recording and saved, replaying the file with speed_multiplier 0
\* calls on_trade(A), then on_candle(B), and nothing else, and returns stats
\* with trades = 1, candles = 1 and total = 2.
C28_RecordReplayRoundTrip ==
    \A a, b \in EventMenu :
        (/\ a.type = "trade" /\ a.timestamp_ms = 1000
         /\ b.type = "candle" /\ b.timestamp_ms = 4000
         /\ replay.last.op = "replay_from_file"
         /\ replay.last.p.speed = 0 /\ replay.last.p.handlers = DataTypes
         /\ replay.last.p.start = <<>> /\ replay.last.p.end = <<>>
         /\ \E k \in 1..Len(replay.returned) : replay.returned[k].value = <<a, b>>
         /\ replay.lists[1] = <<a, b>>
         /\ replay.last.input = <<JsonDumps(a), JsonDumps(b)>>) =>
            LET out == replay.last.out
            IN  /\ ~out.raised
                /\ out.calls = << <<"trade", a.data>>, <<"candle", b.data>> >>
                /\ out.stats["trades"] = 1 /\ out.stats["candles"] = 1
                /\ "total" \in DOMAIN out.stats /\ out.stats["total"] = 2

\* the records of a replayed file, in file order
Replayed == [i \in 1..Len(replay.last.input) |-> JsonLoads(replay.last.input[i])]

\* the position of the first record past the end filter that is not before
\* the start filter, or one more than the number of records
StopAt(records, p) ==
    LET past == {i \in 1..Len(records) :
                    /\ p.end # <<>> /\ records[i].timestamp_ms > p.end[1]
                    /\ ~(p.start # <<>> /\ records[i].timestamp_ms < p.start[1])}
    IN  IF past = {} THEN Len(records) + 1
        ELSE CHOOSE i \in past : \A j \in past : i <= j

\* C29: in a replay of a file with every handler given, the records before
\* the start filter are counted in skipped and are not dispatched nor counted
\* per type; the first record past the end filter ends the replay, so that it
\* and the records after it are neither dispatched nor counted; every other
\* record read before that point is dispatched exactly once, in file order.
C29_TimeFilters ==
    (/\ replay.last.op = "replay_from_file"
     /\ replay.last.p.handlers = DataTypes) =>
        LET p == replay.last.p
            out == replay.last.out
            n == StopAt(Replayed, p)
            read == SubSeq(Replayed, 1, n - 1)
            early(r) == p.start # <<>> /\ r.timestamp_ms < p.start[1]
            kept == SelectSeq(read, LAMBDA r : ~early(r))
        IN  /\ out.stats["skipped"] = Len(SelectSeq(read, early))
            /\ out.calls = [i \in 1..Len(kept) |-> <<kept[i].type, kept[i].data>>]
            /\ \A ty \in DataTypes :
                  out.stats[StatKey(ty)] = Len(SelectSeq(kept, LAMBDA r : r.type = ty))

\* C30: a replay without time filters and with every handler given, from a
\* file or from records, calls for every record of the input, in input
\* order, the handler of the record's type with the record's data and makes
\* no other call; the event bus is not used; every per-type counter returned
\* equals the number of records of the type that were dispatched.
C30_RoutingByType ==
    (/\ replay.last.op \in {"replay_from_file", "replay_from_records"}
     /\ replay.last.p.handlers = DataTypes
     /\ replay.last.p.start = <<>> /\ replay.last.p.end = <<>>) =>
        LET out == replay.last.out
            records == IF replay.last.op = "replay_from_file" THEN Replayed
                       ELSE replay.last.input
        IN  /\ out.calls = [i \in 1..Len(records) |-> <<records[i].type, records[i].data>>]
            /\ bus = CreateEventBus
            /\ \A ty \in DataTypes :
                  StatKey(ty) \in DOMAIN out.stats =>
                      out.stats[StatKey(ty)] =
                          Len(SelectSeq(out.calls, LAMBDA c : c[1] = ty))

\* C31: in a replay with a speed above 0 the sleeps are exactly these: before
\* each replayed record but the first whose timestamp is above that of the
\* replayed record before it, one sleep of the difference / 1000 / speed;
\* no sleep is made for a difference of zero or below; with speed 0 no sleep
\* is made at all; without time filters the records replayed are the first
\* records of the input, in the order of the input.
C31_ReplayPacing ==
    replay.last.op \in {"replay_from_file", "replay_from_records"} =>
        LET out == replay.last.out
            speed == replay.last.p.speed
            ts == out.replayed
            later == {i \in 2..Len(ts) : ts[i] - ts[i - 1] > 0}
            records == IF replay.last.op = "replay_from_file" THEN Replayed
                       ELSE replay.last.input
        IN  /\ speed = 0 => out.sleeps = <<>>
            /\ speed > 0 =>
                  /\ {out.sleeps[k][3] : k \in 1..Len(out.sleeps)} = later
                  /\ \A k \in 1..Len(out.sleeps) :
                        LET i == out.sleeps[k][3]
                        IN  /\ out.sleeps[k][1] = ts[i] - ts[i - 1]
                            /\ out.sleeps[k][2] = speed
                            /\ \A j \in 1..Len(out.sleeps) : j < k => out.sleeps[j][3] < i
            /\ (replay.last.p.start = <<>> /\ replay.last.p.end = <<>>) =>
                  ts = [i \in 1..Len(ts) |-> records[i].timestamp_ms]

\* a replay at speed 2 of records that are not in the order of their
\* timestamps: one sleep, before the third record
C31_Witness ==
    /\ replay.last.op = "replay_from_records" /\ replay.last.p.speed = 2
    /\ replay.last.out.replayed = <<4000, 1000, 2000>>
    /\ replay.last.out.sleeps = << <<1000, 2, 3>> >>

\* C32: a replay without time filters never raises, whatever its handlers
\* do, and replays and counts every record of its input, those after a
\* record whose handler raised included.
C32_HandlerErrorsContained ==
    (/\ replay.last.op \in {"replay_from_file", "replay_from_records"}
     /\ replay.last.p.start = <<>> /\ replay.last.p.end = <<>>) =>
        LET out == replay.last.out
            records == IF replay.last.op = "replay_from_file" THEN Replayed
                       ELSE replay.last.input
        IN  /\ ~out.raised
            /\ Len(out.replayed) = Len(records)
            /\ \A ty \in {"trade", "candle"} :
                  out.stats[StatKey(ty)] = Len(SelectSeq(records, LAMBDA r : r.type = ty))

\* C33: when emit_event_async reaches its gather, every sync subscriber of
\* the type has been called, in subscription order and whether or not it
\* raised, no async subscriber has run yet, and there is one task for every
\* async subscriber of the type; emit_event_async returns, without raising,
\* only when every one of these tasks has finished, those that raise included.
C33_EmitAsyncOrder ==
    /\ [](lastOp.op = "emit_async" =>
             /\ lastOp.calls = lastOp.subs
             /\ ~lastOp.raised
             /\ aemit.ran = <<>>
             /\ aemit.tasks = Get(bus.async_subscribers, lastOp.type))
    /\ [][(aemit.pc = "gather" /\ aemit'.pc # "gather") =>
             /\ aemit.left = {}
             /\ lastOp'.op = "emit_async_return"
             /\ Len(lastOp'.ran) = Len(aemit.tasks)
             /\ \A cb \in Range(aemit.tasks) :
                   Cardinality({i \in 1..Len(aemit.tasks) : aemit.tasks[i] = cb}) =
                   Cardinality({i \in 1..Len(lastOp'.ran) : lastOp'.ran[i] = cb})]_vars

\* an emit_event_async with a sync subscriber that raised returns after the
\* task that raises ran first and the other task ran after it
C33_Witness ==
    /\ lastOp.op = "emit_async_return"
    /\ lastOp.ran = <<"acX", "acA">>
    /\ bus.error_count = 1

\* occurrences of x in the list s
Count(s, x) == Cardinality({i \in 1..Len(s) : s[i] = x})

\* C34: a callback registered several times for a type is called by an emit
\* once per entry; a call of an unsubscribe closure removes at most one entry
\* of its callback and leaves the other subscribers in their order; a closure
\* that is called again, its own entry being gone, removes nothing.
C34_DuplicateRegistrations ==
    /\ lastOp.op \in {"emit", "emit_async"} => lastOp.calls = lastOp.subs
    /\ lastOp.op \in {"unsubscribe", "unsubscribe_async"} =>
          /\ SelectSeq(lastOp.after, LAMBDA x : x # lastOp.cb) =
             SelectSeq(lastOp.before, LAMBDA x : x # lastOp.cb)
          /\ Count(lastOp.after, lastOp.cb) >= Count(lastOp.before, lastOp.cb) - 1
          /\ lastOp.again => lastOp.after = lastOp.before

\* C35: the next step of an ingestion task whose cancellation stop has
\* requested ends the task, wherever the task is suspended, and puts no error
\* event on the bus, does not go on with a reconnect and creates no task.
C35_CancellationEndsTask ==
    [][\A t \in TaskIds :
          (task[t].cancel /\ task'[t].pc # task[t].pc) =>
              /\ task'[t] = FreeTask
              /\ bus' = bus
              /\ prov' = prov
              /\ \A u \in TaskIds \ {t} : task[u].pc = "none" => task'[u].pc = "none"]_vars

\* C37: when stop has returned, and for as long as the controller is not
\* started again, no ingestion task exists: none is running, none is
\* pending and none is created, wherever the tasks were when stop was called.
C37_StopDrainsTasks ==
    (app.pc = "idle" /\ ~running) => \A t \in TaskIds : task[t] = FreeTask

\* C39: a provider message is dispatched only while the running flag is
\* set; a message that a task receives after stop has cleared the flag is
\* not dispatched, nothing of it is observed by the storage buffer, a
\* handler, the bus or the bridge, and the task ends.
C39_NoDispatchWhenStopped ==
    /\ [](lastOp.op = "deliver" => running)
    /\ [](lastOp.op = "not_dispatched" => ~running /\ task[lastOp.task] = FreeTask)
    /\ [][\A t \in TaskIds :
             (~running /\ task[t].pc = "iter" /\ task'[t].pc # "iter") =>
                 /\ lastOp'.op # "deliver"
                 /\ storage' = storage
                 /\ task'[t] = FreeTask]_vars

\* stop has returned and a task it did not cancel received a message, which
\* was not dispatched
C39_Witness ==
    /\ lastOp.op = "not_dispatched"
    /\ ~running
    /\ app.pc = "idle"

C38_FanOutOverSnapshot ==
    lastOp.op \in {"emit", "emit_async"} =>
        /\ Len(lastOp.calls) >= Len(lastOp.subs)
        /\ SubSeq(lastOp.calls, 1, Len(lastOp.subs)) = lastOp.subs

(***************************************************************************)
(* One token bucket used by several callers at a time: the rate limiter of *)
(* a provider during overlapping fetch_binance_historical_candles calls    *)
(***************************************************************************)
\* callers that use the limiter at the same time
MaxCallers == 2
\* acquire_rate_limit calls explored on the shared limiter
MaxSharedAcquires == 4

Callers == 1..MaxCallers

\* create_rate_limiter(requests_per_second) with time.monotonic() = 0, and
\* callers that have not called yet; done lists the times at which an
\* acquire_rate_limit call returned
CreateSharedLimiter(requests_per_second) ==
    [tokens |-> requests_per_second * TicksPerSecond,
     max_tokens |-> requests_per_second,
     last_refill |-> 0,
     refill_rate |-> requests_per_second,
     pc |-> "shared", clock |-> 0,
     callers |-> [c \in Callers |-> [pc |-> "idle", wake_at |-> 0]],
     done |-> <<>>]

InitShared ==
    /\ BusFresh /\ CtlFresh /\ cfg = BareConfig
    /\ retry = Unused /\ breaker = Unused /\ provider = Unused
    /\ store = Unused /\ replay = Unused
    /\ limiter \in {CreateSharedLimiter(r) : r \in 1..MaxRate}

\* acquire_rate_limit calls begun on the shared limiter
SharedCalls ==
    Len(limiter.done) + Cardinality({c \in Callers : limiter.callers[c].pc = "wait"})

\* caller c calls acquire_rate_limit: up to its return or to its await
ShAcquire(c) ==
    /\ limiter.pc = "shared"
    /\ limiter.callers[c].pc = "idle"
    /\ SharedCalls < MaxSharedAcquires
    /\ LET l == Refill(limiter, limiter.clock)
       IN  limiter' =
             IF l.tokens >= TicksPerSecond
             THEN [l EXCEPT !.tokens = @ - TicksPerSecond,
                            !.done = Append(@, limiter.clock)]
             ELSE [l EXCEPT !.callers[c] = [pc |-> "wait",
                                            wake_at |-> limiter.clock + WaitTime(l)]]
    /\ UNCHANGED <<busVars, ctlVars, store, replay, retry, breaker, provider>>

\* asyncio.sleep(wait_time) of caller c returns, not before wait_time has
\* passed, and the call returns
ShWake(c) ==
    /\ limiter.pc = "shared"
    /\ limiter.callers[c].pc = "wait"
    /\ limiter.clock >= limiter.callers[c].wake_at
    /\ limiter' = [limiter EXCEPT !.tokens = 0, !.last_refill = limiter.clock,
                                  !.callers[c] = [pc |-> "idle", wake_at |-> 0],
                                  !.done = Append(@, limiter.clock)]
    /\ UNCHANGED <<busVars, ctlVars, store, replay, retry, breaker, provider>>

\* time passes
ShTick ==
    /\ limiter.pc = "shared"
    /\ limiter.clock < MaxClock
    /\ limiter' = [limiter EXCEPT !.clock = @ + 1]
    /\ UNCHANGED <<busVars, ctlVars, store, replay, retry, breaker, provider>>

NextShared ==
    \/ \E c \in Callers : ShAcquire(c)
    \/ \E c \in Callers : ShWake(c)
    \/ ShTick

SpecShared == InitShared /\ [][NextShared]_vars

\* C40: on a limiter that several callers use at a time, the acquire calls
\* that return within any interval of length T are at most
\* max_tokens + refill_rate * T.
C40_SharedRateBound ==
    limiter.pc = "shared" =>
        \A i, j \in 1..Len(limiter.done) :
            i <= j =>
                (j - i + 1) * TicksPerSecond <=
                    limiter.max_tokens * TicksPerSecond
                    + limiter.refill_rate * (limiter.done[j] - limiter.done[i])
====
